---------------------------- MODULE Spec2Model ----------------------------
(***************************************************************************)
(* Model of the warp coordination protocol (cli package):                  *)
(*   - the follower's runClientBenchmark and its stage signals             *)
(*     (src/cli/benchmark.go),                                             *)
(*   - the coordinator's runServerBenchmark with its connections helpers   *)
(*     (src/cli/benchserver.go),                                           *)
(*   - the thread-id offsetting of merge (src/cli/list.go).                *)
(***************************************************************************)
EXTENDS Integers, Sequences, FiniteSets, TLC

(***************************************************************************)
(* Bounds of the model.                                                    *)
(***************************************************************************)
\* Number of operations the workers of one follower issue at most.
MaxOps == 2
\* Number of followers of the coordinator.
NumHosts == 2
\* The coordinator's clock runs from 0 to MaxTime.
MaxTime == 2
\* Not-finished polls one follower answers at most in one wait.
MaxPolls == 1
\* Input files of one merge at most.
MaxFiles == 3

(***************************************************************************)
(* benchmarkStage (benchmark.go:341-353).                                  *)
(***************************************************************************)
stageNotStarted == ""
stagePrepare == "prepare"
stageBenchmark == "benchmark"
stageCleanup == "cleanup"
stageDone == "done"

benchmarkStages == <<stagePrepare, stageBenchmark, stageCleanup>>

StageSet == {benchmarkStages[k] : k \in 1..Len(benchmarkStages)}

\* The order of the stage machine, NotStarted first.
StageOrder == <<stageNotStarted, stagePrepare, stageBenchmark, stageCleanup, stageDone>>

StageIdx(s) == CHOOSE k \in 1..Len(StageOrder) : StageOrder[k] = s

\* Worker threads of one follower.
Threads == {0, 1}

VARIABLES
    \* ---- follower: clientBenchmark (benchmark.go:270-284)
    stage,          \* clientBenchmark.stage
    startRequested, \* info[s].startRequested
    startClosed,    \* info[s].start is closed (the start signal is raised)
    doneCloses,     \* number of close(info[s].done) executed
    cbErr,          \* clientBenchmark.err ("" is nil)
    results,        \* clientBenchmark.results
    ctxDone,        \* clientBenchmark.ctx is cancelled
    \* ---- follower: runClientBenchmark locals and position
    fpc,            \* position of runClientBenchmark
    ctx2Cancelled,  \* cancel() of ctx2 was called
    tpc,            \* position of the timer goroutine (benchmark.go:373-393)
    timerElapsed,   \* the time since the goroutine set its timer, in half seconds
    gate,           \* the start channel handed to b.Start, by stage name
    issued,         \* operations issued by the workers of b.Start, in issue order
    ops,            \* the local ops of runClientBenchmark
    calls,          \* driver entry points called so far, in call order
    fileWritten,    \* the follower wrote its .csv.zst
    keepData,       \* ctx.Bool("keep-data")
    noclear,        \* ctx.Bool("noclear")
    \* ---- coordinator: runServerBenchmark and connections (benchserver.go)
    spc,            \* position of runServerBenchmark
    cstage,         \* the stage argument of the running startStageAll/waitForStage
    ws,             \* connections.ws[i] is non-nil
    gor,            \* the goroutine of host i in the running fan-out
    gerr,           \* gerr of the running startStageAll ("" is nil)
    now,            \* the coordinator's clock, in seconds
    startAt,        \* the startAt argument of the last startStageAll (-1: none yet)
    calledAt,       \* the clock when that startStageAll was called
    sentStart,      \* the start_stage requests of that call that reached a follower
    finished,       \* per stage, the hosts that answered a poll finished, no error
    failedIn,       \* <<host, stage, kind>>: the follower errors seen so far
    polled,         \* per host, the not-finished polls answered in the running wait
    waitSet,        \* the hosts the running (or last) waitForStage polls
    sendOpsReq,     \* the hosts send_ops was sent to
    replied,        \* per host, the log its send_ops reply carried
    downloaded,     \* res of downloadOps, in arrival order
    allOps,         \* allOps of runServerBenchmark
    wsEnd,          \* per host, how its connections left the table, in order
    resultFile,     \* how writing the coordinator's .csv.zst went ("": not tried)
    retErr,         \* the error runServerBenchmark returned ("" is nil)
    \* ---- merge: mainMerge (list.go:147-204)
    margs,          \* the logs held by the files ctx.Args() names
    mpc,            \* position of mainMerge
    midx,           \* index of the next file of the loop
    threads,        \* threads, a uint16
    mAllOps,        \* allOps of mainMerge
    mOut,           \* the log written to the output file (<<>>: none)
    \* ---- the flags of an invocation (benchserver.go:85-133, commandLine)
    flagArg,        \* per flag of the command: <<>> not given, <<v>> given as v
    rpc,            \* position of the invocation
    fidx,           \* index of the next flag of the loop over ctx.Command.Flags
    reqFlags,       \* req.Benchmark.Flags
    cmdLine,        \* the pieces of the string commandLine returned
    \* ---- connections.connect(i) (benchserver.go:311-364)
    kpc,            \* position of connect
    tries,          \* tries
    wsi,            \* c.ws[i] is non-nil
    attempt,        \* what the last handshake attempt met and how it ended
    \* ---- runBench (benchmark.go:95-265)
    activeBenchmark, \* activeBenchmark is non-nil
    warpClient,     \* ctx.String("warp-client") is not empty
    autoterm,       \* ctx.Bool("autoterm")
    mode,           \* the path runBench took ("" before it chose)
    bpc,            \* position of runBench
    AutoTermDur,    \* c.AutoTermDur of the benchmark (0: unset)
    startGate,      \* the start channel of the standalone run and its goroutine
    benchFile,      \* the standalone run created its .csv.zst
    berr,           \* the error runBench met ("" is nil)
    clk,            \* time.Now() of the standalone run, in half seconds
    syncstart,      \* parseLocalTime of the syncstart flag (NoSyncStart: "")
    benchDur,       \* ctx.Duration("duration")
    preparedAt,     \* the time at which b.Prepare returned
    tStart,         \* tStart of runBench
    deadline,       \* the deadline of ctx2
    ctx2Done,       \* ctx2: "none" before it is made, "live", or why it is done
    gateCloses,     \* how often close(start) was executed
    \* ---- the segment width of an analysis (part_000:228-271, 567-597)
    analyzeDur,     \* ctx.String("analyze.dur")
    total,          \* the length of the range to cut into segments
    apc,            \* position of the command
    segDur,         \* what durFn returned for total (-1: nothing yet)
    \* ---- cmp: printCompare (part_001:78-149)
    before,         \* the op-types of the records of the first file
    after,          \* the op-types of the records of the second file
    beforeDur,      \* Duration() of the first file's records of each op-type
    afterDur,       \* Duration() of the second file's records of each op-type
    wantOp,         \* ctx.String("analyze.op")
    cpc,            \* position of printCompare
    cidx,           \* index of the next op-type of the loop
    compared,       \* the calls of bench.Compare, in order
    \* ---- the delete command (delete.go:66-98)
    dNArg,          \* ctx.NArg()
    benchOk,        \* checkBenchmark finds nothing wrong with the benchmark flags
    batch,          \* ctx.Int("batch")
    concurrent,     \* ctx.Int("concurrent")
    objects,        \* ctx.Int("objects")
    dpc,            \* position of mainDelete
    deleteBench,    \* the bench.Delete handed to runBench (<<>>: none)
    \* ---- roundTrip (benchserver.go:279-308)
    rtReq,          \* the request roundTrip was called with
    rtpc,           \* position of roundTrip
    rtWs,           \* c.ws[i]: the connection to follower i (0 is nil)
    rtConn,         \* conn, the connection the loop body works on
    rtDials,        \* the connections connect has made so far
    rtLog,          \* the writes, reads and connects of the call, in order
    rtRet,          \* what roundTrip returned ("" while it runs)
    \* ---- generator options (pkg/generator/options.go)
    totalSize,      \* Options.totalSize
    randSize,       \* Options.randSize
    optLog          \* the options applied and whether each returned an error

clientVars == <<stage, startRequested, startClosed, doneCloses, cbErr, results,
                ctxDone, fpc, ctx2Cancelled, tpc, timerElapsed, gate, issued, ops,
                calls, fileWritten, keepData, noclear>>

serverVars == <<spc, cstage, ws, gor, gerr, now, startAt, calledAt, sentStart,
                finished, failedIn, polled, waitSet, sendOpsReq, replied, downloaded,
                allOps, resultFile, retErr, wsEnd>>

mergeVars == <<margs, mpc, midx, threads, mAllOps, mOut>>

flagVars == <<flagArg, rpc, fidx, reqFlags, cmdLine>>

connVars == <<kpc, tries, wsi, attempt>>

\* The clock, the start time and the deadline of the standalone run.
runClock == <<clk, syncstart, benchDur, preparedAt, tStart, deadline, ctx2Done,
              gateCloses>>

runVars == <<activeBenchmark, warpClient, autoterm, mode, bpc, AutoTermDur,
             startGate, benchFile, berr, runClock>>

analyzeVars == <<analyzeDur, total, apc, segDur>>

cmpVars == <<before, after, beforeDur, afterDur, wantOp, cpc, cidx, compared>>

deleteVars == <<dNArg, benchOk, batch, concurrent, objects, dpc, deleteBench>>

rtVars == <<rtReq, rtpc, rtWs, rtConn, rtDials, rtLog, rtRet>>

optVars == <<totalSize, randSize, optLog>>

libVars == <<rtVars, optVars>>

toolVars == <<flagVars, connVars, runVars, analyzeVars, cmpVars, deleteVars, libVars>>

\* All variables but those of one part.
notFlagVars == <<clientVars, serverVars, mergeVars, connVars, runVars, analyzeVars,
                 cmpVars, deleteVars, libVars>>

notConnVars == <<clientVars, serverVars, mergeVars, flagVars, runVars, analyzeVars,
                 cmpVars, deleteVars, libVars>>

\* All variables but those of runBench and the driver calls it shares with
\* the follower path.
notRunVars ==
    <<stage, startRequested, startClosed, doneCloses, cbErr, results, ctxDone, fpc,
      ctx2Cancelled, tpc, timerElapsed, gate, issued, ops, fileWritten, keepData,
      noclear, serverVars, mergeVars, flagVars, connVars, analyzeVars, cmpVars,
      deleteVars, libVars>>

notAnalyzeVars ==
    <<clientVars, serverVars, mergeVars, flagVars, connVars, runVars, cmpVars,
      deleteVars, libVars>>

notCmpVars ==
    <<clientVars, serverVars, mergeVars, flagVars, connVars, runVars, analyzeVars,
      deleteVars, libVars>>

notDeleteVars ==
    <<clientVars, serverVars, mergeVars, flagVars, connVars, runVars, cmpVars,
      libVars>>

\* All variables but those of roundTrip, and all but those of the options.
notRtVars == <<clientVars, serverVars, mergeVars, flagVars, connVars, runVars,
               analyzeVars, cmpVars, deleteVars, optVars>>

notOptVars == <<clientVars, serverVars, mergeVars, flagVars, connVars, runVars,
                analyzeVars, cmpVars, deleteVars, rtVars>>

vars == <<clientVars, serverVars, mergeVars, toolVars>>

\* The elements of a sequence.
Range(s) == {s[k] : k \in 1..Len(s)}

(***************************************************************************)
(* Follower.                                                               *)
(***************************************************************************)

\* clientBenchmark.init (benchmark.go:286-298) followed by the flags of the
\* invocation the follower was asked to run.
ClientInit ==
    /\ stage = stageNotStarted
    /\ startRequested = [s \in StageSet |-> FALSE]
    /\ startClosed = [s \in StageSet |-> FALSE]
    /\ doneCloses = [s \in StageSet |-> 0]
    /\ cbErr = ""
    /\ results = <<>>
    /\ ctxDone = FALSE
    /\ fpc = "waitPrepare"
    /\ ctx2Cancelled = FALSE
    /\ tpc = "none"
    /\ timerElapsed = 0
    /\ gate = "none"
    /\ issued = <<>>
    /\ ops = <<>>
    /\ calls = <<>>
    /\ fileWritten = FALSE
    /\ keepData \in BOOLEAN
    /\ noclear \in BOOLEAN

\* ctx2 is derived from cb.ctx (benchmark.go:362): done when either is cancelled.
Ctx2Done == ctx2Cancelled \/ ctxDone

\* setStage (benchmark.go:335-339).
setStage(s) == stage' = s

\* stageDone storing every error it is called with.
recordLastErr(err) == IF err # "" THEN err ELSE cbErr

\* stageDone, lines 325-327: the error is stored when none is stored yet.
recordErr(err) == IF err # "" /\ cbErr = "" THEN err ELSE cbErr

\* stageDone (benchmark.go:319-333): keep the first error, close the done signal.
cbStageDone(s, err) ==
    /\ cbErr' = recordErr(err)
    /\ doneCloses' = [doneCloses EXCEPT ![s] = @ + 1]

\* The follower's handler of start_stage: the first request for a stage marks
\* it requested and schedules the close of its start channel.
ServeStartStage(s) ==
    /\ ~startRequested[s]
    /\ startRequested' = [startRequested EXCEPT ![s] = TRUE]
    /\ UNCHANGED <<stage, startClosed, doneCloses, cbErr, results, ctxDone, fpc,
                   ctx2Cancelled, tpc, gate, issued, ops, calls,
                   fileWritten, keepData, noclear, timerElapsed, serverVars, mergeVars, toolVars>>

\* The scheduled close(info.start) once start_at is reached.
CloseStart(s) ==
    /\ startRequested[s]
    /\ ~startClosed[s]
    /\ startClosed' = [startClosed EXCEPT ![s] = TRUE]
    /\ UNCHANGED <<stage, startRequested, doneCloses, cbErr, results, ctxDone, fpc,
                   ctx2Cancelled, tpc, gate, issued, ops, calls,
                   fileWritten, keepData, noclear, timerElapsed, serverVars, mergeVars, toolVars>>

\* The follower's context is cancelled (the coordinator went away).
CancelCtx ==
    /\ ~ctxDone
    /\ fpc # "returned"
    /\ ctxDone' = TRUE
    /\ UNCHANGED <<stage, startRequested, startClosed, doneCloses, cbErr, results,
                   fpc, ctx2Cancelled, tpc, gate, issued, ops, calls,
                   fileWritten, keepData, noclear, timerElapsed, serverVars, mergeVars, toolVars>>

\* waitForStage without the wait: the stage is entered at once.
waitForStageNoWait(at, s, next) ==
    /\ fpc = at
    /\ setStage(s)
    /\ fpc' = next
    /\ UNCHANGED ctx2Cancelled

\* waitForStage (benchmark.go:301-316) as called at position `at`: the select
\* takes either ready case.
waitForStage(at, s, next) ==
    /\ fpc = at
    /\ \/ /\ startClosed[s]
          /\ setStage(s)
          /\ fpc' = next
          /\ UNCHANGED ctx2Cancelled
       \/ /\ ctxDone
          /\ fpc' = "returned"
          \* the deferred cancel() exists only after line 363
          /\ ctx2Cancelled' = (ctx2Cancelled \/ at # "waitPrepare")
          /\ UNCHANGED stage

\* runClientBenchmark, lines 356-359.
ClientWaitPrepare ==
    /\ waitForStage("waitPrepare", stagePrepare, "prepare")
    /\ UNCHANGED <<startRequested, startClosed, doneCloses, cbErr, results, ctxDone,
                   tpc, gate, issued, ops, calls, fileWritten, keepData, noclear,
                   timerElapsed, serverVars, mergeVars, toolVars>>

\* runClientBenchmark, lines 360-365: take the benchmark start channel, derive
\* ctx2 and call b.Prepare.
ClientCallPrepare ==
    /\ fpc = "prepare"
    /\ gate' = stageBenchmark
    /\ calls' = Append(calls, "Prepare")
    /\ fpc' = "inPrepare"
    /\ UNCHANGED <<stage, startRequested, startClosed, doneCloses, cbErr, results,
                   ctxDone, ctx2Cancelled, tpc, issued, ops, fileWritten, keepData,
                   noclear, timerElapsed, serverVars, mergeVars, toolVars>>

\* b.Prepare returns and the error path calls stageDone(prepare) once more
\* before it returns.
ClientPrepareReturnsDoneAgain ==
    /\ fpc = "inPrepare"
    /\ \E err \in {"", "prepare failed"} :
        /\ cbErr' = IF err # "" /\ cbErr = "" THEN err ELSE cbErr
        /\ IF err # ""
           THEN /\ doneCloses' = [doneCloses EXCEPT ![stagePrepare] = @ + 2]
                /\ fpc' = "returned"
                /\ ctx2Cancelled' = TRUE
                /\ UNCHANGED tpc
           ELSE /\ doneCloses' = [doneCloses EXCEPT ![stagePrepare] = @ + 1]
                /\ fpc' = "start"
                /\ tpc' = "waitStart"
                /\ UNCHANGED ctx2Cancelled
    /\ UNCHANGED <<stage, startRequested, startClosed, results, ctxDone, gate, issued,
                   ops, calls, fileWritten, keepData, noclear, timerElapsed,
                   serverVars, mergeVars, toolVars>>

\* runClientBenchmark, lines 365-393: b.Prepare returns, stageDone(prepare),
\* return on error, otherwise spawn the timer goroutine.
ClientPrepareReturns ==
    /\ fpc = "inPrepare"
    /\ \E err \in {"", "prepare failed"} :
        /\ cbStageDone(stagePrepare, err)
        /\ IF err # ""
           THEN /\ fpc' = "returned"
                /\ ctx2Cancelled' = TRUE
                /\ UNCHANGED tpc
           ELSE /\ fpc' = "start"
                /\ tpc' = "waitStart"
                /\ UNCHANGED ctx2Cancelled
    /\ UNCHANGED <<stage, startRequested, startClosed, results, ctxDone, gate, issued,
                   ops, calls, fileWritten, keepData, noclear, timerElapsed, serverVars, mergeVars,
                   toolVars>>

\* The longest time the timer of the goroutine is followed.
MaxElapsed == 3

\* The timer goroutine, lines 376-381: wait for the start signal or ctx2; on
\* the start signal the timer of line 388 is set.
TimerWaitStart ==
    /\ tpc = "waitStart"
    /\ \/ /\ Ctx2Done
          /\ tpc' = "aborted"
       \/ /\ startClosed[gate]
          /\ tpc' = "timing"
    /\ timerElapsed' = 0
    /\ UNCHANGED <<stage, startRequested, startClosed, doneCloses, cbErr, results,
                   ctxDone, fpc, ctx2Cancelled, gate, issued, ops, calls,
                   fileWritten, keepData, noclear, serverVars, mergeVars, toolVars>>

\* Time passes while the goroutine waits at its second select.
TimerTick ==
    /\ tpc = "timing"
    /\ timerElapsed < MaxElapsed
    /\ timerElapsed' = timerElapsed + 1
    /\ UNCHANGED <<stage, startRequested, startClosed, doneCloses, cbErr, results,
                   ctxDone, fpc, ctx2Cancelled, tpc, gate, issued, ops, calls,
                   fileWritten, keepData, noclear, serverVars, mergeVars, toolVars>>

\* The goroutine calling cancel() without waiting for its timer.
TimerFiresAtOnce ==
    /\ tpc = "timing"
    /\ \/ /\ Ctx2Done
          /\ tpc' = "aborted"
          /\ UNCHANGED ctx2Cancelled
       \/ /\ tpc' = "stopped"
          /\ ctx2Cancelled' = TRUE
    /\ UNCHANGED <<stage, startRequested, startClosed, doneCloses, cbErr, results,
                   ctxDone, fpc, timerElapsed, gate, issued, ops, calls, fileWritten,
                   keepData, noclear, serverVars, mergeVars, toolVars>>

\* The timer goroutine, lines 384-392: return when ctx2 is done, or cancel
\* ctx2 when time.After(benchDur) has fired, which it does not before benchDur
\* has passed.
TimerFires ==
    /\ tpc = "timing"
    /\ \/ /\ Ctx2Done
          /\ tpc' = "aborted"
          /\ UNCHANGED ctx2Cancelled
       \/ /\ timerElapsed >= benchDur
          /\ tpc' = "stopped"
          /\ ctx2Cancelled' = TRUE
    /\ UNCHANGED <<stage, startRequested, startClosed, doneCloses, cbErr, results,
                   ctxDone, fpc, timerElapsed, gate, issued, ops, calls, fileWritten,
                   keepData, noclear, serverVars, mergeVars, toolVars>>

\* runClientBenchmark, lines 395-401: call b.Start(ctx2, start).
ClientCallStart ==
    /\ fpc = "start"
    /\ calls' = Append(calls, "Start")
    /\ fpc' = "inStart"
    /\ UNCHANGED <<stage, startRequested, startClosed, doneCloses, cbErr, results,
                   ctxDone, ctx2Cancelled, tpc, gate, issued, ops, fileWritten,
                   keepData, noclear, timerElapsed, serverVars, mergeVars, toolVars>>

\* A worker of b.Start issues one operation: workers block on the gate and
\* stop at the deadline.
WorkerIssuesOp ==
    /\ fpc = "inStart"
    /\ startClosed[gate]
    /\ ~Ctx2Done
    /\ Len(issued) < MaxOps
    /\ \E t \in Threads :
        issued' = Append(issued, [thread |-> t, start |-> Len(issued) + 1, client |-> ""])
    /\ UNCHANGED <<stage, startRequested, startClosed, doneCloses, cbErr, results,
                   ctxDone, fpc, ctx2Cancelled, tpc, gate, ops, calls, fileWritten,
                   keepData, noclear, timerElapsed, serverVars, mergeVars, toolVars>>

\* The log b.Start returns: the per-worker buffers appended.
StartLog == SelectSeq(issued, LAMBDA r : r.thread = 0) \o
            SelectSeq(issued, LAMBDA r : r.thread = 1)

\* b.Start returns and stageDone(benchmark) is called with the log not
\* stored as results.
ClientStartReturnsResultsNotStored ==
    /\ fpc = "inStart"
    /\ startClosed[gate]
    /\ Ctx2Done
    /\ ops' = StartLog
    /\ \E err \in {"", "start failed"} :
        /\ cbStageDone(stageBenchmark, err)
        /\ IF err # ""
           THEN /\ fpc' = "returned"
                /\ ctx2Cancelled' = TRUE
           ELSE /\ fpc' = "setClientID"
                /\ UNCHANGED ctx2Cancelled
    /\ UNCHANGED <<stage, startRequested, startClosed, results, ctxDone, tpc, gate,
                   issued, calls, fileWritten, keepData, noclear, timerElapsed, serverVars,
                   mergeVars, toolVars>>

\* runClientBenchmark, lines 401-408: b.Start returns once its workers have
\* stopped; the log is stored as results, stageDone(benchmark), return on error.
ClientStartReturns ==
    /\ fpc = "inStart"
    /\ startClosed[gate]
    /\ Ctx2Done
    /\ ops' = StartLog
    /\ results' = StartLog
    /\ \E err \in {"", "start failed"} :
        /\ cbStageDone(stageBenchmark, err)
        /\ IF err # ""
           THEN /\ fpc' = "returned"
                /\ ctx2Cancelled' = TRUE
           ELSE /\ fpc' = "setClientID"
                /\ UNCHANGED ctx2Cancelled
    /\ UNCHANGED <<stage, startRequested, startClosed, ctxDone, tpc, gate, issued,
                   calls, fileWritten, keepData, noclear, timerElapsed, serverVars, mergeVars, toolVars>>

\* Operations.SetClientID: every record gets the follower's client id.
SetClientID(o, id) == [k \in 1..Len(o) |-> [o[k] EXCEPT !.client = id]]

\* Insert r behind the records of the sorted log s that do not start later.
RECURSIVE InsertByStart(_, _)
InsertByStart(r, s) ==
    IF s = <<>> THEN <<r>>
    ELSE IF s[Len(s)].start <= r.start THEN Append(s, r)
    ELSE Append(InsertByStart(r, SubSeq(s, 1, Len(s) - 1)), s[Len(s)])

\* Operations.SortByStartTime: the log ordered by start.
RECURSIVE SortByStartTime(_)
SortByStartTime(o) ==
    IF o = <<>> THEN <<>>
    ELSE InsertByStart(o[Len(o)], SortByStartTime(SubSeq(o, 1, Len(o) - 1)))

\* runClientBenchmark, line 409: ops.SetClientID(cID). ops and cb.results are
\* the same slice, so the stored results change with it.
ClientSetClientID ==
    /\ fpc = "setClientID"
    /\ ops' = SetClientID(ops, "cID")
    /\ results' = SetClientID(ops, "cID")
    /\ fpc' = "sort"
    /\ UNCHANGED <<stage, startRequested, startClosed, doneCloses, cbErr, ctxDone,
                   ctx2Cancelled, tpc, gate, issued, calls, fileWritten,
                   keepData, noclear, timerElapsed, serverVars, mergeVars, toolVars>>

\* runClientBenchmark, line 410: ops.SortByStartTime(), in place.
ClientSort ==
    /\ fpc = "sort"
    /\ ops' = SortByStartTime(ops)
    /\ results' = SortByStartTime(ops)
    /\ fpc' = "writeFile"
    /\ UNCHANGED <<stage, startRequested, startClosed, doneCloses, cbErr, ctxDone,
                   ctx2Cancelled, tpc, gate, issued, calls, fileWritten,
                   keepData, noclear, timerElapsed, serverVars, mergeVars, toolVars>>

\* runClientBenchmark, lines 412-427: write the .csv.zst; a failed create is
\* logged, a failed encoder or write is fatal.
ClientWriteFile ==
    /\ fpc = "writeFile"
    /\ \E out \in {"written", "createFailed", "fatal"} :
        /\ fileWritten' = (out = "written")
        /\ fpc' = IF out = "fatal" THEN "fatal" ELSE "waitCleanup"
    /\ UNCHANGED <<stage, startRequested, startClosed, doneCloses, cbErr, results,
                   ctxDone, ctx2Cancelled, tpc, gate, issued, ops, calls,
                   keepData, noclear, timerElapsed, serverVars, mergeVars, toolVars>>

\* runClientBenchmark, lines 429-432.
ClientWaitCleanup ==
    /\ waitForStage("waitCleanup", stageCleanup, "cleanup")
    /\ UNCHANGED <<startRequested, startClosed, doneCloses, cbErr, results, ctxDone,
                   tpc, gate, issued, ops, calls, fileWritten, keepData, noclear,
                   timerElapsed, serverVars, mergeVars, toolVars>>

\* The end of runClientBenchmark calling b.Cleanup whatever the flags are.
ClientCleanupAlways ==
    /\ fpc = "cleanup"
    /\ calls' = Append(calls, "Cleanup")
    /\ cbStageDone(stageCleanup, "")
    /\ fpc' = "returned"
    /\ ctx2Cancelled' = TRUE
    /\ UNCHANGED <<stage, startRequested, startClosed, results, ctxDone, tpc, gate,
                   issued, ops, fileWritten, keepData, noclear, timerElapsed, serverVars, mergeVars,
                   toolVars>>

\* The end of runClientBenchmark returning without stageDone(cleanup).
ClientCleanupWithoutDone ==
    /\ fpc = "cleanup"
    /\ IF ~keepData /\ ~noclear
       THEN calls' = Append(calls, "Cleanup")
       ELSE UNCHANGED calls
    /\ fpc' = "returned"
    /\ ctx2Cancelled' = TRUE
    /\ UNCHANGED <<stage, startRequested, startClosed, doneCloses, cbErr, results,
                   ctxDone, tpc, gate, issued, ops, fileWritten, keepData, noclear,
                   timerElapsed, serverVars, mergeVars, toolVars>>

\* runClientBenchmark, lines 433-439: b.Cleanup unless keep-data or noclear,
\* stageDone(cleanup, nil), return nil (running the deferred cancel).
ClientCleanup ==
    /\ fpc = "cleanup"
    /\ IF ~keepData /\ ~noclear
       THEN calls' = Append(calls, "Cleanup")
       ELSE UNCHANGED calls
    /\ cbStageDone(stageCleanup, "")
    /\ fpc' = "returned"
    /\ ctx2Cancelled' = TRUE
    /\ UNCHANGED <<stage, startRequested, startClosed, results, ctxDone, tpc, gate,
                   issued, ops, fileWritten, keepData, noclear, timerElapsed, serverVars, mergeVars,
                   toolVars>>

ClientNext ==
    \/ \E s \in StageSet : ServeStartStage(s)
    \/ \E s \in StageSet : CloseStart(s)
    \/ CancelCtx
    \/ ClientWaitPrepare
    \/ ClientCallPrepare
    \/ ClientPrepareReturns
    \/ TimerWaitStart
    \/ TimerTick
    \/ TimerFires
    \/ ClientCallStart
    \/ WorkerIssuesOp
    \/ ClientStartReturns
    \/ ClientSetClientID
    \/ ClientSort
    \/ ClientWriteFile
    \/ ClientWaitCleanup
    \/ ClientCleanup


(***************************************************************************)
(* Coordinator.                                                            *)
(***************************************************************************)
Hosts == 1..NumHosts

\* const benchmarkWait = 3 * time.Second, in seconds.
benchmarkWait == 3

\* Width of a thread id: threads := uint16(0).
ThreadBits == 16

ThreadMod == 2 ^ ThreadBits

\* The startAt argument of the three startStageAll calls, relative to
\* time.Now(): Add(time.Second), Add(benchmarkWait), Now().
StartDelay(s) ==
    CASE s = stagePrepare -> 1
      [] s = stageBenchmark -> benchmarkWait
      [] OTHER -> 0

\* startStageAll never failing on an error.
StartFailOnErrNever(s) == FALSE

\* The failOnErr argument of the three startStageAll calls.
StartFailOnErr(s) == s = stagePrepare

\* waitForStage never failing on an error.
WaitFailOnErrNever(s) == FALSE

\* waitForStage failing on an error in every stage.
WaitFailOnErrAlways(s) == TRUE

\* waitForStage failing on an error in Cleanup as in Prepare.
WaitFailOnErrCleanup(s) == s \in {stagePrepare, stageCleanup}

\* The failOnErr argument of the three waitForStage calls.
WaitFailOnErr(s) == s = stagePrepare

\* A start time taken when the request is sent, not when the stage is started.
startStageRequestAtSend(i, t, s) == [host |-> i, stage |-> s, at |-> now + StartDelay(s)]

\* The request startStage sends (benchserver.go:368-372).
startStageRequest(i, t, s) == [host |-> i, stage |-> s, at |-> t]

\* A poll that ends on any reply that is no error.
PollEndsOnAnyReply(reply) == TRUE

\* waitForStage stops polling a follower on resp.StageInfo.Finished.
PollEnds(reply) == reply = "finished"

\* The logs a follower may answer send_ops with.
ThreadSeqs == {<<>>, <<0>>, <<1, 0>>}

FollowerLog(i, ts) ==
    [k \in 1..Len(ts) |-> [thread |-> ts[k], start |-> 2 * k - (i % 2), from |-> i]]

(***************************************************************************)
(* Operations.OffsetThreads(n): add n to every thread id (16 bit) and      *)
(* return the next free id, max(thread_id) + 1.                            *)
(***************************************************************************)
ShiftThreads(o, n) ==
    [k \in 1..Len(o) |-> [o[k] EXCEPT !.thread = (@ + n) % ThreadMod]]

MaxThread(o) ==
    CHOOSE m \in {o[k].thread : k \in 1..Len(o)} :
        \A k \in 1..Len(o) : o[k].thread <= m

OffsetThreads(o, n) ==
    IF o = <<>> THEN n ELSE (MaxThread(ShiftThreads(o, n)) + 1) % ThreadMod

\* The loop "threads = ops.OffsetThreads(threads); allOps = append(allOps,
\* ops...)" over the logs d, started with the offset n.
RECURSIVE ConcatOffset(_, _)
ConcatOffset(d, n) ==
    IF d = <<>> THEN <<>>
    ELSE ShiftThreads(Head(d), n) \o ConcatOffset(Tail(d), OffsetThreads(Head(d), n))

\* The logs combined with the offsets started at 1, a single log included.
CollectOpsFromOne(d) == ConcatOffset(d, 1)

\* The logs combined in the order of the host list instead of the order of
\* res.
CollectOpsByHost(d) ==
    LET first == SelectSeq(d, LAMBDA o : o # <<>> /\ o[1].from = 1)
        rest == SelectSeq(d, LAMBDA o : ~(o # <<>> /\ o[1].from = 1))
    IN  CASE Len(d) = 0 -> <<>>
          [] Len(d) = 1 -> d[1]
          [] OTHER -> ConcatOffset(first \o rest, 0)

\* runServerBenchmark, lines 178-188: the switch on len(downloaded).
CollectOps(d) ==
    CASE Len(d) = 0 -> <<>>
      [] Len(d) = 1 -> d[1]
      [] OTHER -> ConcatOffset(d, 0)

\* The state after newConnections (benchserver.go:233-243).
ServerInit ==
    /\ spc = "connect"
    /\ cstage = stagePrepare
    /\ ws = [i \in Hosts |-> FALSE]
    /\ gor = [i \in Hosts |-> "idle"]
    /\ gerr = ""
    /\ now = 0
    /\ startAt = -1
    /\ calledAt = -1
    /\ sentStart = {}
    /\ finished = [s \in StageSet |-> {}]
    /\ failedIn = {}
    /\ polled = [i \in Hosts |-> 0]
    /\ waitSet = {}
    /\ sendOpsReq = {}
    /\ replied = [i \in Hosts |-> <<>>]
    /\ downloaded = <<>>
    /\ allOps = <<>>
    /\ resultFile = ""
    /\ retErr = ""
    /\ wsEnd = [i \in Hosts |-> <<>>]

\* fatalIf with a non-nil error: the process exits, nothing deferred runs.
Fatal == spc' = "fatal"

\* The goroutines a fan-out starts: one per non-nil connection.
Spawn == [i \in Hosts |-> IF ws[i] THEN "run" ELSE "idle"]

NoneRunning == \A i \in Hosts : gor[i] # "run"

\* The connection of host i leaves the table in the way how.
EndConn(i, how) == wsEnd' = [wsEnd EXCEPT ![i] = Append(@, how)]

\* closeAll (benchserver.go:250-258), deferred by runServerBenchmark: every
\* connection in the table is sent Disconnect, closed and taken out.
closeAll ==
    /\ ws' = [i \in Hosts |-> FALSE]
    /\ wsEnd' = [i \in Hosts |-> IF ws[i] THEN Append(wsEnd[i], "closed") ELSE wsEnd[i]]

\* The host the connect loop is at: the hosts are connected in order.
ConnIdx == Cardinality({i \in Hosts : ws[i]}) + 1

\* The loop over the hosts going on after a failed round trip or an error
\* reply.
SrvSendBenchmarkGoesOn ==
    /\ spc = "connect"
    /\ \E out \in {"ok", "fail", "err"} :
        /\ ws' = [ws EXCEPT ![ConnIdx] = (out # "fail")]
        /\ spc' = IF ConnIdx = NumHosts /\ out # "fail" THEN "startStageAll" ELSE "connect"
        /\ failedIn' = IF out = "ok" THEN failedIn
                       ELSE failedIn \cup
                           {<<ConnIdx, "connect", IF out = "fail" THEN "lost" ELSE "err">>}
    /\ UNCHANGED <<cstage, gor, gerr, now, startAt, calledAt, sentStart, finished,
                   polled, waitSet, sendOpsReq, replied, downloaded, allOps,
                   resultFile, retErr, wsEnd, clientVars, mergeVars, toolVars>>

\* runServerBenchmark, lines 136-145: one iteration of the loop sending the
\* benchmark request; a failed round trip or an error reply is fatal.
SrvSendBenchmark ==
    /\ spc = "connect"
    /\ \E out \in {"ok", "fail", "err"} :
        /\ ws' = [ws EXCEPT ![ConnIdx] = (out # "fail")]
        /\ IF out = "ok"
           THEN /\ spc' = IF ConnIdx = NumHosts THEN "startStageAll" ELSE "connect"
                /\ UNCHANGED failedIn
           ELSE /\ Fatal
                /\ failedIn' = failedIn \cup
                       {<<ConnIdx, "connect", IF out = "fail" THEN "lost" ELSE "err">>}
    /\ UNCHANGED <<cstage, gor, gerr, now, startAt, calledAt, sentStart, finished,
                   polled, waitSet, sendOpsReq, replied, downloaded, allOps,
                   resultFile, retErr, wsEnd, clientVars, mergeVars, toolVars>>

\* startStageAll, lines 386-396: startAt is the caller's time.Now() plus the
\* delay of the stage; one goroutine per connected host.
SrvStartStageAll ==
    /\ spc = "startStageAll"
    /\ startAt' = now + StartDelay(cstage)
    /\ calledAt' = now
    /\ sentStart' = {}
    /\ gor' = Spawn
    /\ gerr' = ""
    /\ spc' = "starting"
    /\ UNCHANGED <<cstage, ws, now, finished, failedIn, polled, waitSet,
                   sendOpsReq, replied, downloaded, allOps, resultFile, retErr,
                   wsEnd, clientVars, mergeVars, toolVars>>

\* startStageAll's goroutine for host i, lines 397-412, with startStage
\* (lines 367-383): a failed round trip leaves ws[i] nil, an error is fatal or
\* drops the host.
SrvStartStage(i) ==
    /\ spc = "starting"
    /\ gor[i] = "run"
    /\ \E out \in {"ok", "err", "failSent", "failUnsent"} :
        /\ sentStart' = IF out = "failUnsent" THEN sentStart
                        ELSE sentStart \cup {startStageRequest(i, startAt, cstage)}
        /\ IF out = "ok"
           THEN /\ gor' = [gor EXCEPT ![i] = "done"]
                /\ UNCHANGED <<spc, ws, gerr, failedIn, wsEnd>>
           ELSE /\ failedIn' = failedIn \cup
                       {<<i, cstage, IF out = "err" THEN "err" ELSE "lost">>}
                /\ IF StartFailOnErr(cstage)
                   THEN /\ Fatal
                        /\ ws' = [ws EXCEPT ![i] = (out = "err")]
                        /\ UNCHANGED <<gor, gerr, wsEnd>>
                   ELSE /\ gerr' = IF gerr = "" THEN "stage start failed" ELSE gerr
                        /\ ws' = [ws EXCEPT ![i] = FALSE]
                        /\ EndConn(i, "dropped")
                        /\ gor' = [gor EXCEPT ![i] = "done"]
                        /\ UNCHANGED spc
    /\ UNCHANGED <<cstage, now, startAt, calledAt, finished, polled, waitSet,
                   sendOpsReq, replied, downloaded, allOps, resultFile, retErr,
                   clientVars, mergeVars, toolVars>>

\* startStageAll, lines 414-415: wg.Wait() and return.
SrvStartStageAllReturns ==
    /\ spc = "starting"
    /\ NoneRunning
    /\ spc' = "waitForStage"
    /\ gor' = [i \in Hosts |-> "idle"]
    /\ gerr' = ""
    /\ UNCHANGED <<cstage, ws, now, startAt, calledAt, sentStart, finished,
                   failedIn, polled, waitSet, sendOpsReq, replied, downloaded, allOps,
                   resultFile, retErr, wsEnd, clientVars, mergeVars, toolVars>>

\* waitForStage, lines 455-463: one polling goroutine per connected host.
SrvWaitForStage ==
    /\ spc = "waitForStage"
    /\ gor' = Spawn
    /\ waitSet' = {i \in Hosts : ws[i]}
    /\ polled' = [i \in Hosts |-> 0]
    /\ spc' = "waiting"
    /\ UNCHANGED <<cstage, ws, gerr, now, startAt, calledAt, sentStart, finished,
                   failedIn, sendOpsReq, replied, downloaded, allOps, resultFile,
                   retErr, wsEnd, clientVars, mergeVars, toolVars>>

\* A polling goroutine that ends after MaxPolls answers of not finished.
SrvPollGivesUp(i) ==
    /\ spc = "waiting"
    /\ gor[i] = "run"
    /\ \E reply \in {"fail", "err", "finished", "notfinished"} :
        IF reply \in {"fail", "err"}
        THEN /\ ws' = [ws EXCEPT ![i] = FALSE]
             /\ EndConn(i, IF reply = "fail" THEN "dropped" ELSE "closed")
             /\ failedIn' = failedIn \cup
                    {<<i, cstage, IF reply = "fail" THEN "lost" ELSE "err">>}
             /\ IF WaitFailOnErr(cstage)
                THEN Fatal /\ UNCHANGED gor
                ELSE gor' = [gor EXCEPT ![i] = "done"] /\ UNCHANGED spc
             /\ UNCHANGED <<finished, polled>>
        ELSE IF PollEnds(reply)
        THEN /\ finished' = IF reply = "finished"
                            THEN [finished EXCEPT ![cstage] = @ \cup {i}]
                            ELSE finished
             /\ gor' = [gor EXCEPT ![i] = "done"]
             /\ UNCHANGED <<spc, ws, failedIn, polled, wsEnd>>
        ELSE IF polled[i] < MaxPolls
        THEN /\ polled' = [polled EXCEPT ![i] = @ + 1]
             /\ UNCHANGED <<spc, ws, gor, failedIn, finished, wsEnd>>
        ELSE /\ gor' = [gor EXCEPT ![i] = "done"]
             /\ UNCHANGED <<spc, ws, failedIn, finished, polled, wsEnd>>
    /\ UNCHANGED <<cstage, gerr, now, startAt, calledAt, sentStart, waitSet,
                   sendOpsReq, replied, downloaded, allOps, resultFile, retErr,
                   clientVars, mergeVars, toolVars>>

\* waitForStage's goroutine for host i, lines 465-492: one stage_status round
\* trip and what follows it.
SrvPoll(i) ==
    /\ spc = "waiting"
    /\ gor[i] = "run"
    /\ \E reply \in {"fail", "err", "finished", "notfinished"} :
        IF reply \in {"fail", "err"}
        THEN /\ ws' = [ws EXCEPT ![i] = FALSE]
             /\ EndConn(i, IF reply = "fail" THEN "dropped" ELSE "closed")
             /\ failedIn' = failedIn \cup
                    {<<i, cstage, IF reply = "fail" THEN "lost" ELSE "err">>}
             /\ IF WaitFailOnErr(cstage)
                THEN Fatal /\ UNCHANGED gor
                ELSE gor' = [gor EXCEPT ![i] = "done"] /\ UNCHANGED spc
             /\ UNCHANGED <<finished, polled>>
        ELSE IF PollEnds(reply)
        THEN /\ finished' = IF reply = "finished"
                            THEN [finished EXCEPT ![cstage] = @ \cup {i}]
                            ELSE finished
             /\ gor' = [gor EXCEPT ![i] = "done"]
             /\ UNCHANGED <<spc, ws, failedIn, polled, wsEnd>>
        ELSE /\ polled[i] < MaxPolls
             /\ polled' = [polled EXCEPT ![i] = @ + 1]
             /\ UNCHANGED <<spc, ws, gor, failedIn, finished, wsEnd>>
    /\ UNCHANGED <<cstage, gerr, now, startAt, calledAt, sentStart, waitSet,
                   sendOpsReq, replied, downloaded, allOps, resultFile, retErr,
                   clientVars, mergeVars, toolVars>>

\* waitForStage, lines 495-496, and what runServerBenchmark does next: after
\* Prepare the profiling, after Benchmark the download, after Cleanup the
\* return of (true, nil) with the deferred closeAll.
SrvWaitReturns ==
    /\ spc = "waiting"
    /\ NoneRunning
    /\ IF cstage = stageCleanup
       THEN /\ spc' = "returned"
            /\ closeAll
       ELSE /\ spc' = IF cstage = stagePrepare THEN "profiling" ELSE "download"
            /\ UNCHANGED <<ws, wsEnd>>
    /\ gor' = [i \in Hosts |-> "idle"]
    /\ polled' = [i \in Hosts |-> 0]
    /\ UNCHANGED <<cstage, gerr, now, startAt, calledAt, sentStart, finished,
                   failedIn, waitSet, sendOpsReq, replied, downloaded, allOps,
                   resultFile, retErr, clientVars, mergeVars, toolVars>>

\* runServerBenchmark, lines 154-159: startProfiling; its error is returned.
SrvStartProfiling ==
    /\ spc = "profiling"
    /\ \E ok \in BOOLEAN :
        IF ok
        THEN /\ cstage' = stageBenchmark
             /\ spc' = "startStageAll"
             /\ UNCHANGED <<ws, retErr, wsEnd>>
        ELSE /\ spc' = "returned"
             /\ retErr' = "profiling"
             /\ closeAll
             /\ UNCHANGED cstage
    /\ UNCHANGED <<gor, gerr, now, startAt, calledAt, sentStart, finished, failedIn,
                   polled, waitSet, sendOpsReq, replied, downloaded, allOps,
                   resultFile, clientVars, mergeVars, toolVars>>

\* The coordinator going on from the benchmark wait without a download.
SrvDownloadOpsLeftOut ==
    /\ spc = "download"
    /\ spc' = "collect"
    /\ UNCHANGED <<cstage, ws, gor, gerr, now, startAt, calledAt, sentStart, finished,
                   failedIn, polled, waitSet, sendOpsReq, replied, downloaded, allOps,
                   resultFile, retErr, wsEnd, clientVars, mergeVars, toolVars>>

\* runServerBenchmark, lines 170-177, and downloadOps, lines 420-429:
\* prof.stop (fatal when the profile download fails), then one goroutine per
\* connected host.
SrvDownloadOps ==
    /\ spc = "download"
    /\ \E ok \in BOOLEAN :
        IF ok
        THEN spc' = "downloading" /\ gor' = Spawn
        ELSE Fatal /\ UNCHANGED gor
    /\ UNCHANGED <<cstage, ws, gerr, now, startAt, calledAt, sentStart, finished,
                   failedIn, polled, waitSet, sendOpsReq, replied, downloaded, allOps,
                   resultFile, retErr, wsEnd, clientVars, mergeVars, toolVars>>

\* downloadOps' goroutine for host i, lines 430-448: a failed round trip or an
\* error reply is ignored, a reply's ops are appended to res.
SrvSendOps(i) ==
    /\ spc = "downloading"
    /\ gor[i] = "run"
    /\ sendOpsReq' = sendOpsReq \cup {i}
    /\ gor' = [gor EXCEPT ![i] = "done"]
    /\ \/ /\ ws' = [ws EXCEPT ![i] = FALSE]
          /\ EndConn(i, "dropped")
          /\ UNCHANGED <<replied, downloaded>>
       \/ UNCHANGED <<ws, replied, downloaded, wsEnd>>
       \/ \E ts \in ThreadSeqs :
            /\ replied' = [replied EXCEPT ![i] = FollowerLog(i, ts)]
            /\ downloaded' = Append(downloaded, FollowerLog(i, ts))
            /\ UNCHANGED <<ws, wsEnd>>
    /\ UNCHANGED <<spc, cstage, gerr, now, startAt, calledAt, sentStart, finished,
                   failedIn, polled, waitSet, allOps, resultFile, retErr, clientVars,
                   mergeVars, toolVars>>

\* downloadOps, lines 450-451.
SrvDownloadReturns ==
    /\ spc = "downloading"
    /\ NoneRunning
    /\ spc' = "collect"
    /\ gor' = [i \in Hosts |-> "idle"]
    /\ UNCHANGED <<cstage, ws, gerr, now, startAt, calledAt, sentStart, finished,
                   failedIn, polled, waitSet, sendOpsReq, replied, downloaded, allOps,
                   resultFile, retErr, wsEnd, clientVars, mergeVars, toolVars>>

\* runServerBenchmark, lines 178-190: combine the downloaded logs and sort.
SrvCollect ==
    /\ spc = "collect"
    /\ allOps' = SortByStartTime(CollectOps(downloaded))
    /\ spc' = "write"
    /\ UNCHANGED <<cstage, ws, gor, gerr, now, startAt, calledAt, sentStart, finished,
                   failedIn, polled, waitSet, sendOpsReq, replied, downloaded,
                   resultFile, retErr, wsEnd, clientVars, mergeVars, toolVars>>

\* runServerBenchmark, lines 191-208: write the .csv.zst (a failed create is
\* logged, a failed encoder or write is fatal), then go on to Cleanup. The
\* logs are not read after line 208 and are dropped from the state here.
SrvWrite ==
    /\ spc = "write"
    /\ \E out \in {"written", "createFailed", "fatal"} :
        /\ resultFile' = out
        /\ IF out = "fatal"
           THEN Fatal /\ UNCHANGED cstage
           ELSE spc' = "startStageAll" /\ cstage' = stageCleanup
    /\ replied' = [i \in Hosts |-> <<>>]
    /\ downloaded' = <<>>
    /\ allOps' = <<>>
    /\ UNCHANGED <<ws, gor, gerr, now, startAt, calledAt, sentStart, finished,
                   failedIn, polled, waitSet, sendOpsReq, retErr, wsEnd, clientVars,
                   mergeVars, toolVars>>

\* A second passes on the coordinator's clock while the requests of
\* startStageAll are on their way; the clock is read nowhere else, and the
\* seconds that pass elsewhere are not counted.
Tick ==
    /\ spc = "starting"
    /\ now < MaxTime
    /\ now' = now + 1
    /\ UNCHANGED <<spc, cstage, ws, gor, gerr, startAt, calledAt, sentStart, finished,
                   failedIn, polled, waitSet, sendOpsReq, replied, downloaded, allOps,
                   resultFile, retErr, wsEnd, clientVars, mergeVars, toolVars>>

ServerNext ==
    \/ SrvSendBenchmark
    \/ SrvStartStageAll
    \/ \E i \in Hosts : SrvStartStage(i)
    \/ SrvStartStageAllReturns
    \/ SrvWaitForStage
    \/ \E i \in Hosts : SrvPoll(i)
    \/ SrvWaitReturns
    \/ SrvStartProfiling
    \/ SrvDownloadOps
    \/ \E i \in Hosts : SrvSendOps(i)
    \/ SrvDownloadReturns
    \/ SrvCollect
    \/ SrvWrite
    \/ Tick

(***************************************************************************)
(* Merge.                                                                  *)
(***************************************************************************)
\* The thread ids of the logs the input files may hold: small ones and the
\* largest 16-bit one.
MergeThreadSeqs == {<<>>, <<0>>, <<1, 0>>, <<ThreadMod - 1>>, <<0, ThreadMod - 1>>}

MergeInputs ==
    UNION {[1..n -> MergeThreadSeqs] : n \in 1..MaxFiles}

\* mainMerge before its first statement, with the files of the command line.
MergeInit ==
    /\ \E in \in MergeInputs :
        margs = [f \in 1..Len(in) |-> FollowerLog(f, in[f])]
    /\ mpc = "check"
    /\ midx = 1
    /\ threads = 0
    /\ mAllOps = <<>>
    /\ mOut = <<>>

\* mainMerge, lines 148-160: fewer than two files is fatal.
MergeCheckArgs ==
    /\ mpc = "check"
    /\ mpc' = IF Len(margs) <= 1 THEN "fatal" ELSE "loop"
    /\ UNCHANGED <<margs, midx, threads, mAllOps, mOut, clientVars, serverVars, toolVars>>

\* The loop body keeping only the records of the file it just read.
MergeFileKeepsLast ==
    /\ mpc = "loop"
    /\ midx <= Len(margs)
    /\ \E readable \in BOOLEAN :
        IF readable
        THEN /\ threads' = OffsetThreads(margs[midx], threads)
             /\ mAllOps' = ShiftThreads(margs[midx], threads)
             /\ midx' = midx + 1
             /\ UNCHANGED mpc
        ELSE /\ mpc' = "fatal"
             /\ UNCHANGED <<midx, threads, mAllOps>>
    /\ UNCHANGED <<margs, mOut, clientVars, serverVars, toolVars>>

\* mainMerge, lines 161-172: one iteration of the loop over the files; a
\* file that cannot be opened, decompressed or parsed is fatal.
MergeFile ==
    /\ mpc = "loop"
    /\ midx <= Len(margs)
    /\ \E readable \in BOOLEAN :
        IF readable
        THEN /\ threads' = OffsetThreads(margs[midx], threads)
             /\ mAllOps' = mAllOps \o ShiftThreads(margs[midx], threads)
             /\ midx' = midx + 1
             /\ UNCHANGED mpc
        ELSE /\ mpc' = "fatal"
             /\ UNCHANGED <<midx, threads, mAllOps>>
    /\ UNCHANGED <<margs, mOut, clientVars, serverVars, toolVars>>

\* mainMerge, lines 173-180: no record at all is an error, otherwise sort.
MergeSort ==
    /\ mpc = "loop"
    /\ midx > Len(margs)
    /\ IF mAllOps = <<>>
       THEN mpc' = "returnedErr" /\ UNCHANGED mAllOps
       ELSE mpc' = "write" /\ mAllOps' = SortByStartTime(mAllOps)
    /\ UNCHANGED <<margs, midx, threads, mOut, clientVars, serverVars, toolVars>>

\* mainMerge, lines 181-203: write the output file (a failed create is
\* logged, a failed encoder or write is fatal), warn about op types without
\* overlap, return nil.
MergeWrite ==
    /\ mpc = "write"
    /\ \E out \in {"written", "createFailed", "fatal"} :
        /\ mOut' = IF out = "written" THEN mAllOps ELSE <<>>
        /\ mpc' = IF out = "fatal" THEN "fatal" ELSE "returned"
    /\ UNCHANGED <<margs, midx, threads, mAllOps, clientVars, serverVars, toolVars>>

MergeNext ==
    \/ MergeCheckArgs
    \/ MergeFile
    \/ MergeSort
    \/ MergeWrite

\* mainMerge not running.
MergeIdle ==
    /\ margs = <<>>
    /\ mpc = "idle"
    /\ midx = 1
    /\ threads = 0
    /\ mAllOps = <<>>
    /\ mOut = <<>>

(***************************************************************************)
(* The flags of an invocation: the request sent to the followers and the   *)
(* command line written into the log.                                      *)
(***************************************************************************)
\* Flags of a benchmark command (combineFlags(globalFlags, ioFlags, ...,
\* benchFlags, analyzeFlags)): name is what GetName returns, names are the
\* names the flag is registered and looked up under, vals the values given.
CommandFlags ==
    << [name |-> "quiet, q",       names |-> {"quiet", "q"},      type |-> "Bool",
        vals |-> {TRUE}],
       [name |-> "autocompletion", names |-> {"autocompletion"},  type |-> "Bool",
        vals |-> {TRUE}],
       [name |-> "host",           names |-> {"host"},            type |-> "String",
        vals |-> {"s3:9000"}],
       [name |-> "access-key",     names |-> {"access-key"},      type |-> "String",
        vals |-> {"", "AK1"}],
       [name |-> "secret-key",     names |-> {"secret-key"},      type |-> "String",
        vals |-> {"", "SK1"}],
       [name |-> "concurrent",     names |-> {"concurrent"},      type |-> "Int",
        vals |-> {0}],
       [name |-> "serverprof",     names |-> {"serverprof"},      type |-> "String",
        vals |-> {"cpu"}],
       [name |-> "duration",       names |-> {"duration"},        type |-> "Duration",
        vals |-> {300}],
       [name |-> "syncstart",      names |-> {"syncstart"},       type |-> "String",
        vals |-> {"12:00"}],
       [name |-> "warp-client",    names |-> {"warp-client"},     type |-> "String",
        vals |-> {"f1,f2"}],
       [name |-> "analyze.out",    names |-> {"analyze.out"},     type |-> "String",
        vals |-> {"out.csv"}] >>

FlagIdx == DOMAIN CommandFlags

\* The flag types the switch of flagToJSON has a case for.
HandledTypes ==
    {"String", "Bool", "Int64", "Int", "Duration", "Uint", "Uint64", "Float64"}

excludeFlags ==
    {"warp-client", "warp-client-server", "serverprof", "autocompletion", "help",
     "syncstart", "analyze.out"}

\* ctx.IsSet(name): a flag registered under this very name was given.
IsSet(arg, name) ==
    \E i \in FlagIdx : name \in CommandFlags[i].names /\ arg[i] # <<>>

\* time.Duration.String() of a whole number of seconds.
DurationString(d) ==
    LET h == d \div 3600
        m == (d % 3600) \div 60
        sec == d % 60
    IN  IF h > 0 THEN ToString(h) \o "h" \o ToString(m) \o "m" \o ToString(sec) \o "s"
        ELSE IF m > 0 THEN ToString(m) \o "m" \o ToString(sec) \o "s"
        ELSE ToString(sec) \o "s"

\* ctx.String(name), fmt.Sprint(ctx.Bool(name)), ... of a flag that is set.
FormatFlag(type, v) ==
    CASE type = "Bool" -> (IF v THEN "true" ELSE "false")
      [] type = "Int" -> ToString(v)
      [] type = "Duration" -> DurationString(v)
      [] OTHER -> v

flagToJSON(arg, flag) ==
    IF ~IsSet(arg, flag.name) THEN [val |-> "", err |-> FALSE]
    ELSE IF flag.type \notin HandledTypes THEN [val |-> "", err |-> TRUE]
    ELSE LET i == CHOOSE i \in FlagIdx :
                      flag.name \in CommandFlags[i].names /\ arg[i] # <<>>
         IN  [val |-> FormatFlag(flag.type, arg[i][1]), err |-> FALSE]

\* The index of the flag GetName returns n for.
FlagNamed(n) == CHOOSE i \in FlagIdx : CommandFlags[i].name = n

\* The command lines an invocation can have: any set of the flags given, the
\* two keys with any of their values.
FlagArgs ==
    {[i \in FlagIdx |->
        IF i \notin G THEN <<>>
        ELSE IF i = FlagNamed("access-key") THEN <<ak>>
        ELSE IF i = FlagNamed("secret-key") THEN <<sk>>
        ELSE <<CHOOSE v \in CommandFlags[i].vals : TRUE>>] :
      G \in SUBSET FlagIdx,
      ak \in CommandFlags[FlagNamed("access-key")].vals,
      sk \in CommandFlags[FlagNamed("secret-key")].vals}

FlagsInit ==
    /\ flagArg \in FlagArgs
    /\ rpc = "enter"
    /\ fidx = 1
    /\ reqFlags = <<>>
    /\ cmdLine = <<>>

FlagsIdle ==
    /\ flagArg = [i \in FlagIdx |-> <<>>]
    /\ rpc = "idle"
    /\ fidx = 1
    /\ reqFlags = <<>>
    /\ cmdLine = <<>>

\* ctx.String(name) of a String flag: its value, the default "" if not given.
ctxString(arg, name) ==
    IF IsSet(arg, name)
    THEN flagToJSON(arg, CommandFlags[FlagNamed(name)]).val
    ELSE ""

\* No name at all.
RedactNothing == {}

\* The names redacted by commandLine.
RedactedFlags == {"access-key", "secret-key"}

\* commandLine, the loop from flag i on: one piece " --name=val" per flag
\* with a value, the two keys redacted.
RECURSIVE commandLineFrom(_, _)
commandLineFrom(arg, i) ==
    IF i > Len(CommandFlags) THEN <<>>
    ELSE LET flag == CommandFlags[i]
             r == flagToJSON(arg, flag)
             val == IF flag.name \in RedactedFlags THEN "*REDACTED*" ELSE r.val
         IN  (IF r.err \/ r.val = "" THEN <<>>
              ELSE <<" --" \o flag.name \o "=" \o val>>)
             \o commandLineFrom(arg, i + 1)

\* commandLine: os.Args[0] and the command name, then the flags.
commandLine(arg) == <<"warp get">> \o commandLineFrom(arg, 1)

\* runServerBenchmark, lines 86-88: without warp-client the run is local.
FlagsEnter ==
    /\ rpc = "enter"
    /\ rpc' = IF ctxString(flagArg, "warp-client") = "" THEN "local" ELSE "flags"
    /\ UNCHANGED <<flagArg, fidx, reqFlags, cmdLine, notFlagVars>>

\* runServerBenchmark, lines 122-133: one iteration of the loop over the
\* flags of the command.
SerializeFlag ==
    /\ rpc = "flags"
    /\ fidx <= Len(CommandFlags)
    /\ LET flag == CommandFlags[fidx]
           r == flagToJSON(flagArg, flag)
       IN  IF flag.name \in excludeFlags \/ ~IsSet(flagArg, flag.name)
           THEN fidx' = fidx + 1 /\ UNCHANGED <<rpc, reqFlags>>
           ELSE IF r.err
           THEN rpc' = "returnedErr" /\ UNCHANGED <<fidx, reqFlags>>
           ELSE /\ reqFlags' = (flag.name :> r.val) @@ reqFlags
                /\ fidx' = fidx + 1
                /\ UNCHANGED rpc
    /\ UNCHANGED <<flagArg, cmdLine, notFlagVars>>

\* The loop is over: the request is ready to be sent (lines 135-137).
SerializeDone ==
    /\ rpc = "flags"
    /\ fidx > Len(CommandFlags)
    /\ rpc' = "request"
    /\ UNCHANGED <<flagArg, fidx, reqFlags, cmdLine, notFlagVars>>

\* The log is written with the command line in it (benchserver.go:200,
\* benchmark.go:248).
WriteCommandLine ==
    /\ rpc \in {"local", "request"}
    /\ cmdLine' = commandLine(flagArg)
    /\ rpc' = "written"
    /\ UNCHANGED <<flagArg, fidx, reqFlags, notFlagVars>>

FlagsNext ==
    \/ FlagsEnter
    \/ SerializeFlag
    \/ SerializeDone
    \/ WriteCommandLine

(***************************************************************************)
(* connections.connect: the handshake with one follower.                   *)
(***************************************************************************)
\* Times are whole half seconds. time.Duration is a signed 64-bit count of
\* nanoseconds; the model keeps its arithmetic (Time.Sub saturates, negation
\* wraps) in DurBits bits.
DurBits == 5

DurMax == 2 ^ (DurBits - 1) - 1

DurMin == -(2 ^ (DurBits - 1))

\* time.Second.
Second == 2

\* The roundtrips and the time between the two clock readings of an attempt.
MaxRoundTrip == 2

MaxLag == 1

\* The reply times a follower can send, relative to the coordinator's clock
\* when it sent ServerInfo: a follower's clock can be off by any amount.
ReplyTimes == (DurMin - 2 * Second)..(DurMax + 2 * Second)

\* Time.Sub: the difference of two instants as a Duration, saturated.
TimeSub(t, u) ==
    IF t - u > DurMax THEN DurMax
    ELSE IF t - u < DurMin THEN DurMin
    ELSE t - u

\* -d of a Duration.
NegDuration(d) == IF d = DurMin THEN DurMin ELSE -d

\* What a handshake attempt can meet: how far it gets and, if the follower
\* replies, the reply, the roundtrip and the lag of the second clock reading.
NoReply(dial, write) ==
    [dial |-> dial, write |-> write, read |-> FALSE, err |-> "", time |-> 0,
     rt |-> 0, lag |-> 0]

Meets ==
    {NoReply(FALSE, FALSE), NoReply(TRUE, FALSE), NoReply(TRUE, TRUE)} \cup
    [dial : {TRUE}, write : {TRUE}, read : {TRUE}, err : {"version mismatch"},
     time : {0}, rt : {0}, lag : {0}] \cup
    [dial : {TRUE}, write : {TRUE}, read : {TRUE}, err : {""},
     time : ReplyTimes, rt : 0..MaxRoundTrip, lag : 0..MaxLag]

\* The error of the closure of connect, "" for nil (lines 314-350).
handshake(m) ==
    IF ~m.dial THEN "dial failed"
    ELSE IF ~m.write THEN "write failed"
    ELSE IF ~m.read THEN "read failed"
    ELSE IF m.err # "" THEN m.err
    ELSE LET roundtrip == TimeSub(m.rt, 0)
             delta == TimeSub(m.rt + m.lag, m.time + roundtrip \div 2)
             absDelta == IF delta < 0 THEN NegDuration(delta) ELSE delta
         IN  IF absDelta > Second THEN "time delta too big" ELSE ""

ConnInit ==
    /\ kpc = "attempt"
    /\ tries = 0
    /\ wsi = FALSE
    /\ attempt = [made |-> FALSE, met |-> NoReply(FALSE, FALSE), err |-> ""]

ConnIdle ==
    /\ kpc = "idle"
    /\ tries = 0
    /\ wsi = FALSE
    /\ attempt = [made |-> FALSE, met |-> NoReply(FALSE, FALSE), err |-> ""]

\* connect, line 335: c.ws[i].ReadJSON is called with no read deadline, so
\* with a follower that accepts the connection and sends nothing the call
\* does not return.
ConnectReadBlocks ==
    /\ kpc = "attempt"
    /\ kpc' = "reading"
    /\ wsi' = TRUE
    /\ UNCHANGED <<tries, attempt, notConnVars>>

\* connect trying again after every failed attempt, however many were made.
ConnectAttemptRetriesOn ==
    /\ kpc = "attempt"
    /\ \E m \in Meets :
        LET err == handshake(m)
        IN  /\ attempt' = [made |-> TRUE, met |-> m, err |-> err]
            /\ IF err = ""
               THEN kpc' = "connected" /\ wsi' = TRUE /\ UNCHANGED tries
               ELSE /\ kpc' = "sleep"
                    /\ wsi' = m.dial
                    /\ tries' = IF tries = 3 THEN tries ELSE tries + 1
    /\ UNCHANGED notConnVars

\* connect, lines 313-359: one handshake attempt and what the loop does with
\* its error.
ConnectAttempt ==
    /\ kpc = "attempt"
    /\ \E m \in Meets :
        LET err == handshake(m)
        IN  /\ attempt' = [made |-> TRUE, met |-> m, err |-> err]
            /\ IF err = ""
               THEN kpc' = "connected" /\ wsi' = TRUE /\ UNCHANGED tries
               ELSE IF tries = 3
               THEN kpc' = "failed" /\ wsi' = FALSE /\ UNCHANGED tries
               ELSE kpc' = "sleep" /\ wsi' = m.dial /\ tries' = tries + 1
    /\ UNCHANGED notConnVars

\* connect, lines 360-362: the sleep before the next attempt, whose closure
\* starts with an err and a resp of its own.
ConnectSleep ==
    /\ kpc = "sleep"
    /\ kpc' = "attempt"
    /\ attempt' = [made |-> FALSE, met |-> NoReply(FALSE, FALSE), err |-> ""]
    /\ UNCHANGED <<tries, wsi, notConnVars>>

ConnNext ==
    \/ ConnectAttempt
    \/ ConnectReadBlocks
    \/ ConnectSleep

(***************************************************************************)
(* runBench: the choice of the path and the standalone run.                *)
(***************************************************************************)
\* The longest b.Prepare and the longest standalone run looked at.
MaxPrepareTime == 2

MaxRunTime == 11

\* syncstart is not given.
NoSyncStart == -1

\* b.Prepare has not returned without error.
NotYet == -1

\* The values of syncstart (checkBenchmark, lines 516-521, lets none through
\* that is before the time of the check) and of duration.
SyncStarts == {NoSyncStart, 1, 2 * Second}

BenchDurs == {-Second, Second}

\* syncstart and duration are varied where runBench reads them, on the
\* standalone path.
RunInit ==
    /\ clk = 0
    /\ syncstart \in SyncStarts
    /\ benchDur \in BenchDurs
    /\ preparedAt = NotYet
    /\ tStart = 0
    /\ deadline = 0
    /\ ctx2Done = "none"
    /\ gateCloses = 0
    /\ activeBenchmark \in BOOLEAN
    /\ warpClient \in BOOLEAN
    /\ autoterm \in BOOLEAN
    /\ mode = ""
    /\ bpc = "runBench"
    /\ AutoTermDur = 0
    /\ startGate = "none"
    /\ benchFile = FALSE
    /\ berr = ""
    /\ activeBenchmark \/ warpClient => syncstart = NoSyncStart /\ benchDur = Second

RunIdle ==
    /\ clk = 0
    /\ syncstart = NoSyncStart
    /\ benchDur = Second
    /\ preparedAt = NotYet
    /\ tStart = 0
    /\ deadline = 0
    /\ ctx2Done = "none"
    /\ gateCloses = 0
    /\ activeBenchmark = FALSE
    /\ warpClient = FALSE
    /\ autoterm = FALSE
    /\ mode = ""
    /\ bpc = "idle"
    /\ AutoTermDur = 0
    /\ startGate = "none"
    /\ benchFile = FALSE
    /\ berr = ""

\* c.AutoTermDur after lines 116-120.
autoTermSetup == IF autoterm THEN 1 ELSE 0

\* The choice of the path with the auto-term parameters set before it.
RunBenchSetsAutoTermFirst ==
    /\ bpc = "runBench"
    /\ AutoTermDur' = autoTermSetup
    /\ IF activeBenchmark THEN mode' = "follower" /\ bpc' = "client"
       ELSE IF warpClient THEN mode' = "coordinator" /\ bpc' = "server"
       ELSE mode' = "standalone" /\ bpc' = "setup"
    /\ UNCHANGED <<activeBenchmark, warpClient, autoterm, berr, startGate, benchFile,
                   calls, runClock, notRunVars>>

\* The choice of the path with warp-client looked at first.
RunBenchDispatchServerFirst ==
    /\ bpc = "runBench"
    /\ IF warpClient THEN mode' = "coordinator" /\ bpc' = "server"
       ELSE IF activeBenchmark THEN mode' = "follower" /\ bpc' = "client"
       ELSE mode' = "standalone" /\ bpc' = "setup"
    /\ UNCHANGED <<activeBenchmark, warpClient, autoterm, berr, AutoTermDur, startGate,
                   benchFile, calls, runClock, notRunVars>>

\* runBench, lines 96-103 and runServerBenchmark, lines 86-88: the follower
\* path if a benchmark is registered, else the coordinator path if
\* warp-client is set, else the standalone path.
RunBenchDispatch ==
    /\ bpc = "runBench"
    /\ IF activeBenchmark THEN mode' = "follower" /\ bpc' = "client"
       ELSE IF warpClient THEN mode' = "coordinator" /\ bpc' = "server"
       ELSE mode' = "standalone" /\ bpc' = "setup"
    /\ UNCHANGED <<activeBenchmark, warpClient, autoterm, berr, AutoTermDur, startGate,
                   benchFile, calls, runClock, notRunVars>>

\* runBench, lines 103-106: runServerBenchmark returned done or an error.
RunServerReturns ==
    /\ bpc = "server"
    /\ \E err \in {"", "remote benchmark failed"} :
        /\ berr' = err
        /\ bpc' = IF err = "" THEN "returned" ELSE "fatal"
    /\ UNCHANGED <<activeBenchmark, warpClient, autoterm, mode, AutoTermDur,
                   startGate, benchFile, calls, runClock, notRunVars>>

\* runBench, lines 108-160: the standalone run sets up the benchmark.
RunSetup ==
    /\ bpc = "setup"
    /\ AutoTermDur' = autoTermSetup
    /\ bpc' = "prepare"
    /\ UNCHANGED <<activeBenchmark, warpClient, autoterm, berr, mode, startGate,
                   benchFile, calls, runClock, notRunVars>>

\* b.Prepare with its error not looked at.
RunPrepareGoesOn ==
    /\ bpc = "prepare"
    /\ calls' = Append(calls, "Prepare")
    /\ \E err \in {"", "prepare failed"} :
        /\ berr' = err
        /\ preparedAt' = IF err = "" THEN clk ELSE preparedAt
        /\ bpc' = "arm"
    /\ UNCHANGED <<activeBenchmark, warpClient, autoterm, mode, AutoTermDur,
                   startGate, benchFile, clk, syncstart, benchDur, tStart, deadline,
                   ctx2Done, gateCloses, notRunVars>>

\* runBench, lines 162-167: b.Prepare, fatal on its error.
RunPrepare ==
    /\ bpc = "prepare"
    /\ calls' = Append(calls, "Prepare")
    /\ \E err \in {"", "prepare failed"} :
        /\ berr' = err
        /\ preparedAt' = IF err = "" THEN clk ELSE preparedAt
        /\ bpc' = IF err = "" THEN "arm" ELSE "fatal"
    /\ UNCHANGED <<activeBenchmark, warpClient, autoterm, mode, AutoTermDur,
                   startGate, benchFile, clk, syncstart, benchDur, tStart, deadline,
                   ctx2Done, gateCloses, notRunVars>>

\* runBench, lines 169-180: tStart when the time is at.
StartTime(at) ==
    IF syncstart = NoSyncStart THEN at + 3 * Second
    ELSE IF syncstart < at THEN at
    ELSE syncstart

\* context.WithDeadline: a context whose deadline has passed is done at once.
WithDeadline(d, at) == IF d <= at THEN "deadline" ELSE "live"

\* Lines 169-199 with the deadline counted from the present time.
RunArmDeadlineFromNow ==
    /\ bpc = "arm"
    /\ tStart' = StartTime(clk)
    /\ deadline' = clk + benchDur
    /\ ctx2Done' = WithDeadline(deadline', clk)
    /\ startGate' = "armed"
    /\ \E err \in {"", "profiling failed"} :
        /\ berr' = err
        /\ bpc' = IF err = "" THEN "start" ELSE "fatal"
    /\ UNCHANGED <<activeBenchmark, warpClient, autoterm, mode, AutoTermDur,
                   benchFile, calls, clk, syncstart, benchDur, preparedAt,
                   gateCloses, notRunVars>>

\* runBench, lines 169-199: tStart, ctx2 with its deadline, the goroutine that
\* closes start at tStart, startProfiling, fatal on its error.
RunArm ==
    /\ bpc = "arm"
    /\ tStart' = StartTime(clk)
    /\ deadline' = tStart' + benchDur
    /\ ctx2Done' = WithDeadline(deadline', clk)
    /\ startGate' = "armed"
    /\ \E err \in {"", "profiling failed"} :
        /\ berr' = err
        /\ bpc' = IF err = "" THEN "start" ELSE "fatal"
    /\ UNCHANGED <<activeBenchmark, warpClient, autoterm, mode, AutoTermDur,
                   benchFile, calls, clk, syncstart, benchDur, preparedAt,
                   gateCloses, notRunVars>>

\* The goroutine closing start without waiting for tStart.
RunReleaseGateAtOnce ==
    /\ startGate = "armed"
    /\ bpc # "fatal"
    /\ startGate' = "released"
    /\ gateCloses' = gateCloses + 1
    /\ UNCHANGED <<activeBenchmark, warpClient, autoterm, berr, mode, bpc, AutoTermDur,
                   benchFile, calls, clk, syncstart, benchDur, preparedAt, tStart,
                   deadline, ctx2Done, notRunVars>>

\* The goroutine of lines 185-189: time.After has fired, which it does not
\* before tStart, and start is closed; the goroutine ends.
RunReleaseGate ==
    /\ startGate = "armed"
    /\ bpc # "fatal"
    /\ clk >= tStart
    /\ startGate' = "released"
    /\ gateCloses' = gateCloses + 1
    /\ UNCHANGED <<activeBenchmark, warpClient, autoterm, berr, mode, bpc, AutoTermDur,
                   benchFile, calls, clk, syncstart, benchDur, preparedAt, tStart,
                   deadline, ctx2Done, notRunVars>>

\* The timer of context.WithDeadline: ctx2 is done once its deadline is
\* reached.
RunDeadline ==
    /\ ctx2Done = "live"
    /\ bpc \notin {"fatal", "returned"}
    /\ clk >= deadline
    /\ ctx2Done' = "deadline"
    /\ UNCHANGED <<activeBenchmark, warpClient, autoterm, berr, mode, bpc, AutoTermDur,
                   startGate, benchFile, calls, clk, syncstart, benchDur, preparedAt,
                   tStart, deadline, gateCloses, notRunVars>>

\* Time passes while b.Prepare runs and while the run waits for b.Start.
RunTick ==
    /\ mode = "standalone"
    /\ \/ bpc = "prepare" /\ clk < MaxPrepareTime
       \/ bpc \in {"start", "inStart"} /\ clk < MaxRunTime
    /\ clk' = clk + 1
    /\ UNCHANGED <<activeBenchmark, warpClient, autoterm, berr, mode, bpc, AutoTermDur,
                   startGate, benchFile, calls, syncstart, benchDur, preparedAt,
                   tStart, deadline, ctx2Done, gateCloses, notRunVars>>

\* runBench, line 230: b.Start is called.
RunCallStart ==
    /\ bpc = "start"
    /\ calls' = Append(calls, "Start")
    /\ bpc' = "inStart"
    /\ UNCHANGED <<activeBenchmark, warpClient, autoterm, berr, mode, AutoTermDur,
                   startGate, benchFile, runClock, notRunVars>>

\* runBench, lines 230-238: b.Start returns (the workers ran from the start
\* signal on, until ctx2 was done or they had nothing left to do), ctx2 is
\* cancelled, the log is sorted and stamped.
RunStartReturns ==
    /\ bpc = "inStart"
    /\ startGate = "released"
    /\ ctx2Done' = IF ctx2Done = "live" THEN "cancel" ELSE ctx2Done
    /\ bpc' = "save"
    /\ UNCHANGED <<activeBenchmark, warpClient, autoterm, berr, mode, AutoTermDur,
                   startGate, benchFile, calls, clk, syncstart, benchDur, preparedAt,
                   tStart, deadline, gateCloses, notRunVars>>

\* runBench, lines 240-256: the result file (a failed create is logged, a
\* failed encoder or write is fatal).
RunWriteFile ==
    /\ bpc = "save"
    /\ \E out \in {"written", "createFailed", "fatal"} :
        /\ benchFile' = (out # "createFailed")
        /\ berr' = IF out = "written" THEN "" ELSE "write failed"
        /\ bpc' = IF out = "fatal" THEN "fatal" ELSE "cleanup"
    /\ UNCHANGED <<activeBenchmark, warpClient, autoterm, mode, AutoTermDur,
                   startGate, calls, runClock, notRunVars>>

\* runBench, lines 257-264: b.Cleanup unless keep-data or noclear.
RunCleanup ==
    /\ bpc = "cleanup"
    /\ IF ~keepData /\ ~noclear
       THEN calls' = Append(calls, "Cleanup")
       ELSE UNCHANGED calls
    /\ bpc' = "returned"
    /\ UNCHANGED <<activeBenchmark, warpClient, autoterm, berr, mode, AutoTermDur,
                   startGate, benchFile, runClock, notRunVars>>

\* runBench, line 101: the follower path is runClientBenchmark.
RunClientBenchmark == mode = "follower" /\ ClientNext

RunNext ==
    \/ RunBenchDispatch
    \/ RunServerReturns
    \/ RunSetup
    \/ RunPrepare
    \/ RunArm
    \/ RunReleaseGate
    \/ RunDeadline
    \/ RunTick
    \/ RunCallStart
    \/ RunStartReturns
    \/ RunWriteFile
    \/ RunCleanup
    \/ RunClientBenchmark

(***************************************************************************)
(* The segment width of an analysis: checkAnalyze, durFn, analysisDur.     *)
(***************************************************************************)
\* Durations are whole half seconds here as well.
Minute == 60 * Second

Hour == 60 * Minute

stdDurations ==
    <<Second, 5 * Second, 15 * Second, Minute, 5 * Minute, 15 * Minute, Hour, 3 * Hour>>

wantAtMost == 400

\* a / b of two int64, truncated towards zero (b > 0).
Quot(a, b) == IF a >= 0 THEN a \div b ELSE -((-a) \div b)

\* The loop of analysisDur from entry i on: the first standard duration with
\* total/d <= wantAtMost, the last one if there is none.
RECURSIVE pickStd(_, _)
pickStd(t, i) ==
    IF i = Len(stdDurations) \/ Quot(t, stdDurations[i]) <= wantAtMost
    THEN stdDurations[i]
    ELSE pickStd(t, i + 1)

\* time.ParseDuration on the strings it is given here: what Duration.String
\* prints for a standard duration or zero, and the values of analyze.dur.
ParseDuration(str) ==
    LET printed == {d \in Range(stdDurations) \cup {0} :
                       DurationString(d \div Second) = str}
    IN  IF printed # {} THEN [d |-> CHOOSE d \in printed : TRUE, err |-> FALSE]
        ELSE IF str = "1m" THEN [d |-> Minute, err |-> FALSE]
        ELSE IF str = "-1s" THEN [d |-> -Second, err |-> FALSE]
        ELSE [d |-> 0, err |-> TRUE]

\* analysisDur: the width and whether fatalIf exited on a value that does
\* not parse.
analysisDur(flag, t) ==
    IF flag = "" /\ t = 0 THEN [d |-> 0, err |-> FALSE]
    ELSE IF flag = "" THEN ParseDuration(DurationString(pickStd(t, 1) \div Second))
    ELSE ParseDuration(flag)

\* The values of analyze.dur and the totals looked at: short ranges and the
\* ranges about wantAtMost segments long for each standard duration.
AnalyzeDurs == {"", "1s", "1m", "0s", "-1s", "soon"}

MaxShort == 6

AnalysisTotals ==
    (-1..MaxShort) \cup
    {k * stdDurations[i] + e :
        k \in {wantAtMost, wantAtMost + 1}, i \in 1..Len(stdDurations), e \in {-1, 0, 1}}

AnalyzeInit ==
    /\ analyzeDur \in AnalyzeDurs
    /\ total \in AnalysisTotals
    /\ apc = "check"
    /\ segDur = -1

AnalyzeIdle ==
    /\ analyzeDur = ""
    /\ total = 0
    /\ apc = "idle"
    /\ segDur = -1

\* checkAnalyze: a value of analyze.dur that is zero or does not parse is
\* fatal.
CheckAnalyze ==
    /\ apc = "check"
    /\ LET r == analysisDur(analyzeDur, Minute)
       IN  apc' = IF r.err \/ r.d = 0 THEN "fatal" ELSE "analyze"
    /\ UNCHANGED <<analyzeDur, total, segDur, notAnalyzeVars>>

\* durFn of printAnalysis (lines 261-266) called with total.
DurFn ==
    /\ apc = "analyze"
    /\ LET r == IF total <= 0 THEN [d |-> 0, err |-> FALSE]
                ELSE analysisDur(analyzeDur, total)
       IN  IF r.err
           THEN apc' = "fatal" /\ UNCHANGED segDur
           ELSE apc' = "returned" /\ segDur' = r.d
    /\ UNCHANGED <<analyzeDur, total, notAnalyzeVars>>

AnalyzeNext ==
    \/ CheckAnalyze
    \/ DurFn

(***************************************************************************)
(* cmp: printCompare.                                                      *)
(***************************************************************************)
\* The op-types of the records, in the order OpTypes lists them.
AllOpTypes == <<"DELETE", "GET", "PUT">>

\* Operations.IsMixed: the records are not all of one op-type.
IsMixed(types) == Cardinality(types) > 1

\* Operations.OpTypes: the op-types present, each once, sorted.
OpTypes(types) == SelectSeq(AllOpTypes, LAMBDA t : t \in types)

\* Operations.Duration of the records of one op-type: none without records.
CmpDurations == {Second + 1, (wantAtMost + 1) * Second}

OpDurations(types) ==
    {f \in [Range(AllOpTypes) -> CmpDurations \cup {0}] :
        \A t \in Range(AllOpTypes) : (f[t] = 0) <=> (t \notin types)}

CmpInit ==
    /\ before \in SUBSET Range(AllOpTypes)
    /\ after \in SUBSET Range(AllOpTypes)
    /\ beforeDur \in OpDurations(before)
    /\ afterDur \in OpDurations(after)
    /\ wantOp \in {""} \cup Range(AllOpTypes)
    /\ cpc = "printCompare"
    /\ cidx = 1
    /\ compared = <<>>

CmpIdle ==
    /\ before = {}
    /\ after = {}
    /\ beforeDur = [t \in Range(AllOpTypes) |-> 0]
    /\ afterDur = [t \in Range(AllOpTypes) |-> 0]
    /\ wantOp = ""
    /\ cpc = "idle"
    /\ cidx = 1
    /\ compared = <<>>

\* printCompare going into its loop whatever the two runs are.
CmpSkipsMixedCheck ==
    /\ cpc = "printCompare"
    /\ cpc' = "loop"
    /\ UNCHANGED <<before, after, beforeDur, afterDur, wantOp, cidx, compared,
                   notCmpVars>>

\* printCompare, lines 79-96: console.Fatal if only one of the runs is mixed.
CmpCheckMixed ==
    /\ cpc = "printCompare"
    /\ cpc' = IF IsMixed(before) # IsMixed(after) THEN "fatal" ELSE "loop"
    /\ UNCHANGED <<before, after, beforeDur, afterDur, wantOp, cidx, compared,
                   notCmpVars>>

\* The call of bench.Compare for one op-type: the op-type, whether each run
\* has records of it, the segment width and allThreads.
CompareCall(typ, width) ==
    [typ |-> typ, before |-> typ \in before, after |-> typ \in after,
     analysis |-> width, allThreads |-> ~IsMixed(before)]

\* One iteration of the loop with the width taken from the second run.
CmpOpTypeWidthOfAfter ==
    /\ cpc = "loop"
    /\ cidx <= Len(OpTypes(before))
    /\ LET typ == OpTypes(before)[cidx]
           dur == analysisDur(analyzeDur, afterDur[typ])
       IN  IF wantOp # "" /\ wantOp # typ
           THEN UNCHANGED <<compared, cpc>>
           ELSE IF dur.err
           THEN cpc' = "fatal" /\ UNCHANGED compared
           ELSE /\ compared' = Append(compared, CompareCall(typ, dur.d))
                /\ UNCHANGED cpc
    /\ cidx' = cidx + 1
    /\ UNCHANGED <<before, after, beforeDur, afterDur, wantOp, notCmpVars>>

\* printCompare, lines 102-149: one iteration of the loop over the op-types
\* of the first run, skipped for an op-type analyze.op does not want; the
\* width is analysisDur of the first run's records of the op-type, where
\* fatalIf exits on a value of analyze.dur that does not parse.
CmpOpType ==
    /\ cpc = "loop"
    /\ cidx <= Len(OpTypes(before))
    /\ LET typ == OpTypes(before)[cidx]
           dur == analysisDur(analyzeDur, beforeDur[typ])
       IN  IF wantOp # "" /\ wantOp # typ
           THEN UNCHANGED <<compared, cpc>>
           ELSE IF dur.err
           THEN cpc' = "fatal" /\ UNCHANGED compared
           ELSE /\ compared' = Append(compared, CompareCall(typ, dur.d))
                /\ UNCHANGED cpc
    /\ cidx' = cidx + 1
    /\ UNCHANGED <<before, after, beforeDur, afterDur, wantOp, notCmpVars>>

\* The loop is over, printCompare returns.
CmpReturns ==
    /\ cpc = "loop"
    /\ cidx > Len(OpTypes(before))
    /\ cpc' = "returned"
    /\ UNCHANGED <<before, after, beforeDur, afterDur, wantOp, cidx, compared,
                   notCmpVars>>

CmpNext ==
    \/ CmpCheckMixed
    \/ CmpOpType
    \/ CmpReturns

(***************************************************************************)
(* The delete command: mainDelete and checkDeleteSyntax.                   *)
(***************************************************************************)
\* The width of int, scaled down: ctx.Int values are IntMin..IntMax.
IntBits == 4

IntMax == 2 ^ (IntBits - 1) - 1

IntMin == -(2 ^ (IntBits - 1))

\* The int a product or sum wraps to.
WrapInt(x) == ((x - IntMin) % (2 ^ IntBits)) + IntMin

\* a * b of two int.
MulInt(a, b) == WrapInt(a * b)

DeleteInit ==
    /\ dNArg \in 0..1
    /\ benchOk \in BOOLEAN
    /\ batch \in IntMin..IntMax
    /\ concurrent \in IntMin..IntMax
    /\ objects \in IntMin..IntMax
    /\ dpc = "mainDelete"
    /\ deleteBench = <<>>

DeleteIdle ==
    /\ dNArg = 0
    /\ benchOk = TRUE
    /\ batch = 1
    /\ concurrent = 1
    /\ objects = 4
    /\ dpc = "idle"
    /\ deleteBench = <<>>

RoundTripIdle ==
    /\ rtReq = ""
    /\ rtpc = "idle"
    /\ rtWs = 0
    /\ rtConn = 0
    /\ rtDials = 0
    /\ rtLog = <<>>
    /\ rtRet = ""

OptionsIdle ==
    /\ totalSize = 0
    /\ randSize = FALSE
    /\ optLog = <<>>

LibIdle == RoundTripIdle /\ OptionsIdle

\* checkDeleteSyntax, line 94: batch * concurrent * 4.
wantO == MulInt(MulInt(batch, concurrent), 4)

\* checkDeleteSyntax: console.Fatal and fatalIf exit.
CheckDeleteSyntax ==
    /\ dpc = "mainDelete"
    /\ LET dur == analysisDur(analyzeDur, Minute)
       IN  dpc' = IF dNArg > 0 THEN "fatal"
                  ELSE IF dur.err \/ dur.d = 0 THEN "fatal"
                  ELSE IF ~benchOk THEN "fatal"
                  ELSE IF batch < 1 THEN "fatal"
                  ELSE IF objects < wantO THEN "fatal"
                  ELSE "checked"
    /\ UNCHANGED <<dNArg, benchOk, batch, concurrent, objects, deleteBench,
                   analyzeDur, total, apc, segDur, notDeleteVars>>

\* mainDelete, lines 68-82: the benchmark is constructed and handed to
\* runBench.
DeleteRunBench ==
    /\ dpc = "checked"
    /\ deleteBench' = [Concurrency |-> concurrent, CreateObjects |-> objects,
                       BatchSize |-> batch]
    /\ dpc' = "runBench"
    /\ UNCHANGED <<dNArg, benchOk, batch, concurrent, objects,
                   analyzeDur, total, apc, segDur, notDeleteVars>>

DeleteNext ==
    \/ CheckDeleteSyntax
    \/ DeleteRunBench

ToolsIdle ==
    FlagsIdle /\ ConnIdle /\ RunIdle /\ AnalyzeIdle /\ CmpIdle /\ DeleteIdle /\ LibIdle

\* The follower alone, the coordinator at rest.
InitClient == ClientInit /\ ServerInit /\ MergeIdle /\ ToolsIdle

SpecClient == InitClient /\ [][ClientNext]_vars

\* The steps of the follower's own goroutines: runClientBenchmark and the timer
\* goroutine are scheduled whenever they can run, b.Prepare and b.Cleanup
\* return, b.Start returns once its workers have stopped, and time passes. The
\* coordinator's requests and the cancellation of the context are not forced.
ClientFairness ==
    /\ WF_vars(ClientWaitPrepare)
    /\ WF_vars(ClientCallPrepare)
    /\ WF_vars(ClientPrepareReturns)
    /\ WF_vars(TimerWaitStart)
    /\ WF_vars(TimerTick)
    /\ WF_vars(TimerFires)
    /\ WF_vars(ClientCallStart)
    /\ WF_vars(ClientStartReturns)
    /\ WF_vars(ClientSetClientID)
    /\ WF_vars(ClientSort)
    /\ WF_vars(ClientWriteFile)
    /\ WF_vars(ClientWaitCleanup)
    /\ WF_vars(ClientCleanup)

\* clientBenchmark.init (benchmark.go:286-298): no results, no error, no stage,
\* fresh signals and a fresh context. The calls noted since the last init
\* start anew.
CbInit ==
    /\ fpc # "panic"
    /\ stage' = stageNotStarted
    /\ startRequested' = [s \in StageSet |-> FALSE]
    /\ startClosed' = [s \in StageSet |-> FALSE]
    /\ doneCloses' = [s \in StageSet |-> 0]
    /\ cbErr' = ""
    /\ results' = <<>>
    /\ ctxDone' = FALSE
    /\ calls' = <<>>
    /\ UNCHANGED <<fpc, ctx2Cancelled, tpc, gate, issued, ops, fileWritten, keepData,
                   noclear, timerElapsed, serverVars, mergeVars, toolVars>>

\* The errors stageDone is called with ("" is nil).
StageErrs == {"", "prepare failed", "start failed"}

\* One call of stageDone (benchmark.go:319-333) with any stage and error:
\* closing a done signal that is closed already panics, after the error has
\* been stored.
CbStageDoneCall ==
    /\ fpc # "panic"
    /\ \E s \in StageSet, err \in StageErrs :
        /\ calls' = Append(calls, [s |-> s, err |-> err])
        /\ IF doneCloses[s] = 0
           THEN cbStageDone(s, err) /\ UNCHANGED fpc
           ELSE /\ cbErr' = recordErr(err)
                /\ fpc' = "panic"
                /\ UNCHANGED doneCloses
    /\ UNCHANGED <<stage, startRequested, startClosed, results, ctxDone,
                   ctx2Cancelled, tpc, gate, issued, ops, fileWritten, keepData,
                   noclear, timerElapsed, serverVars, mergeVars, toolVars>>

StageDoneNext ==
    \/ CbInit
    \/ CbStageDoneCall

SpecStageDone == InitClient /\ [][StageDoneNext]_vars

SpecClientLive == InitClient /\ [][ClientNext]_vars /\ ClientFairness

\* The coordinator with its followers as its environment, no local follower.
InitServer ==
    ServerInit /\ ClientInit /\ ~keepData /\ ~noclear /\ MergeIdle /\ ToolsIdle

SpecServer == InitServer /\ [][ServerNext]_vars

\* The merge command.
InitMerge ==
    MergeInit /\ ServerInit /\ ClientInit /\ ~keepData /\ ~noclear /\ ToolsIdle

SpecMerge == InitMerge /\ [][MergeNext]_vars

\* The parts of the program not run by a specification are at rest.
OthersIdle == ServerInit /\ ClientInit /\ ~keepData /\ ~noclear /\ MergeIdle

\* An invocation of a benchmark command, as far as its flags go.
InitFlags ==
    FlagsInit /\ OthersIdle /\ ConnIdle /\ RunIdle /\ AnalyzeIdle /\ CmpIdle
    /\ DeleteIdle /\ LibIdle

SpecFlags == InitFlags /\ [][FlagsNext]_vars

\* The handshake with one follower.
InitConnect ==
    ConnInit /\ OthersIdle /\ FlagsIdle /\ RunIdle /\ AnalyzeIdle /\ CmpIdle
    /\ DeleteIdle /\ LibIdle

SpecConnect == InitConnect /\ [][ConnNext]_vars

\* connect runs on: an attempt whose calls return is made, and the sleep of
\* line 362 ends.
SpecConnectLive ==
    /\ InitConnect
    /\ [][ConnNext]_vars
    /\ WF_vars(ConnectAttempt)
    /\ WF_vars(ConnectSleep)

\* A call of runBench, with any flags, by a follower, a coordinator or alone.
InitRun ==
    /\ RunInit /\ ClientInit /\ ServerInit
    /\ MergeIdle /\ FlagsIdle /\ ConnIdle /\ AnalyzeIdle /\ CmpIdle /\ DeleteIdle /\ LibIdle

SpecRun == InitRun /\ [][RunNext]_vars

\* An analysis: the check of the command line, then the width for a range.
InitAnalyze ==
    AnalyzeInit /\ OthersIdle /\ FlagsIdle /\ ConnIdle /\ RunIdle /\ CmpIdle
    /\ DeleteIdle /\ LibIdle

SpecAnalyze == InitAnalyze /\ [][AnalyzeNext]_vars

\* The values of analyze.dur that checkAnalyze lets through to mainCmp.
CmpAnalyzeDurs == {"", "1m"}

\* The comparison of two runs, after checkAnalyze and checkCmp.
InitCmp ==
    /\ CmpInit /\ OthersIdle /\ FlagsIdle /\ ConnIdle /\ RunIdle /\ DeleteIdle /\ LibIdle
    /\ analyzeDur \in CmpAnalyzeDurs /\ total = 0 /\ apc = "idle" /\ segDur = -1

SpecCmp == InitCmp /\ [][CmpNext]_vars

\* The values of analyze.dur a delete benchmark is tried with.
DeleteAnalyzeDurs == {"", "0s"}

\* An invocation of the delete command with any flag values.
InitDelete ==
    /\ DeleteInit /\ OthersIdle /\ FlagsIdle /\ ConnIdle /\ RunIdle /\ CmpIdle
    /\ LibIdle
    /\ analyzeDur \in DeleteAnalyzeDurs /\ total = 0 /\ apc = "idle" /\ segDur = -1

SpecDelete == InitDelete /\ [][DeleteNext]_vars

(***************************************************************************)
(* generator options: WithSize and WithRandomSize.                         *)
(***************************************************************************)
\* The most options applied in a row.
MaxOptions == 3

\* The sizes WithSize is called with.
OptSizes == {-1, 0, 1, 255, 256, 1048576}

\* defaultOptions (options.go:49-58): totalSize 1 << 20, randSize false.
defaultOptions ==
    /\ totalSize = 1048576
    /\ randSize = FALSE
    /\ optLog = <<>>

\* What is noted of an applied option.
OptEvent(opt, arg, err) == [opt |-> opt, arg |-> arg, err |-> err]

\* WithSize(n) applied (options.go:61-73).
ApplyWithSize ==
    /\ Len(optLog) < MaxOptions
    /\ \E n \in OptSizes :
        IF n <= 0 \/ (randSize /\ totalSize < 256)
        THEN /\ optLog' = Append(optLog, OptEvent("WithSize", n, TRUE))
             /\ UNCHANGED <<totalSize, randSize>>
        ELSE /\ totalSize' = n
             /\ optLog' = Append(optLog, OptEvent("WithSize", n, FALSE))
             /\ UNCHANGED randSize
    /\ UNCHANGED notOptVars

\* WithRandomSize(b) applied (options.go:76-84).
ApplyWithRandomSize ==
    /\ Len(optLog) < MaxOptions
    /\ \E b \in BOOLEAN :
        IF totalSize > 0 /\ totalSize < 256
        THEN /\ optLog' = Append(optLog, OptEvent("WithRandomSize", b, TRUE))
             /\ UNCHANGED <<totalSize, randSize>>
        ELSE /\ randSize' = b
             /\ optLog' = Append(optLog, OptEvent("WithRandomSize", b, FALSE))
             /\ UNCHANGED totalSize
    /\ UNCHANGED notOptVars

OptionsNext ==
    \/ ApplyWithSize
    \/ ApplyWithRandomSize

InitOptions ==
    /\ defaultOptions /\ RoundTripIdle /\ OthersIdle
    /\ FlagsIdle /\ ConnIdle /\ RunIdle /\ AnalyzeIdle /\ CmpIdle /\ DeleteIdle

SpecOptions == InitOptions /\ [][OptionsNext]_vars

(***************************************************************************)
(* roundTrip: one request to a follower, with reconnects.                  *)
(***************************************************************************)
\* The most connections connect makes during one call that is followed.
MaxDials == 3

\* roundTrip is called with a stage_status or a send_ops request, with the
\* connection to the follower open (1) or lost (0).
RoundTripInit ==
    /\ rtReq \in {"stage_status", "send_ops"}
    /\ rtpc = "entry"
    /\ rtWs \in {0, 1}
    /\ rtConn = 0
    /\ rtDials = rtWs
    /\ rtLog = <<>>
    /\ rtRet = ""

\* What is noted of a call on a connection.
RtEvent(op, conn, ok) == [op |-> op, conn |-> conn, req |-> rtReq, ok |-> ok]

\* c.connect(i) as roundTrip sees it: nil with c.ws[i] a new connection, or
\* an error with c.ws[i] nil. pcOk is where roundTrip goes on after nil; after
\* an error it returns the error.
RtConnect(log, pcOk) ==
    /\ rtDials < MaxDials
    /\ \E ok \in BOOLEAN :
        /\ rtDials' = rtDials + 1
        /\ rtLog' = Append(log, RtEvent("connect", rtDials + 1, ok))
        /\ IF ok
           THEN rtWs' = rtDials + 1 /\ rtpc' = pcOk /\ rtRet' = ""
           ELSE rtWs' = 0 /\ rtpc' = "returned" /\ rtRet' = "error"

\* roundTrip, lines 280-286: connect first when there is no connection.
RtEnter ==
    /\ rtpc = "entry"
    /\ IF rtWs = 0
       THEN RtConnect(rtLog, "write")
       ELSE rtpc' = "write" /\ UNCHANGED <<rtWs, rtDials, rtLog, rtRet>>
    /\ UNCHANGED <<rtReq, rtConn, notRtVars>>

\* roundTrip, lines 288-296: conn := c.ws[i] and conn.WriteJSON(req); after a
\* failed write connect, and start the loop body again.
RtWrite ==
    /\ rtpc = "write"
    /\ rtConn' = rtWs
    /\ \/ /\ rtLog' = Append(rtLog, RtEvent("write", rtWs, TRUE))
          /\ rtpc' = "read"
          /\ UNCHANGED <<rtWs, rtDials, rtRet>>
       \/ RtConnect(Append(rtLog, RtEvent("write", rtWs, FALSE)), "write")
    /\ UNCHANGED <<rtReq, notRtVars>>

\* roundTrip reading the reply from the new connection after a failed read,
\* without sending the request again.
RtReadGoesOnReading ==
    /\ rtpc = "read"
    /\ \/ /\ rtLog' = Append(rtLog, RtEvent("read", rtConn, TRUE))
          /\ rtpc' = "returned"
          /\ rtRet' = "reply"
          /\ UNCHANGED <<rtWs, rtDials, rtConn>>
       \/ /\ RtConnect(Append(rtLog, RtEvent("read", rtConn, FALSE)), "read")
          /\ rtConn' = rtWs'
    /\ UNCHANGED <<rtReq, notRtVars>>

\* roundTrip, lines 297-306: conn.ReadJSON(&resp) on the connection the
\* request was written to; return the reply, or after a failed read connect
\* and start the loop body again.
RtRead ==
    /\ rtpc = "read"
    /\ \/ /\ rtLog' = Append(rtLog, RtEvent("read", rtConn, TRUE))
          /\ rtpc' = "returned"
          /\ rtRet' = "reply"
          /\ UNCHANGED <<rtWs, rtDials>>
       \/ RtConnect(Append(rtLog, RtEvent("read", rtConn, FALSE)), "write")
    /\ UNCHANGED <<rtReq, rtConn, notRtVars>>

RoundTripNext ==
    \/ RtEnter
    \/ RtWrite
    \/ RtRead

InitRoundTrip ==
    /\ RoundTripInit /\ OptionsIdle /\ OthersIdle
    /\ FlagsIdle /\ ConnIdle /\ RunIdle /\ AnalyzeIdle /\ CmpIdle /\ DeleteIdle

SpecRoundTrip == InitRoundTrip /\ [][RoundTripNext]_vars

(***************************************************************************)
(* Properties.                                                             *)
(***************************************************************************)
\* The hosts the coordinator saw fail in the Benchmark stage.
DroppedInBenchmark == {f[1] : f \in {g \in failedIn : g[2] = stageBenchmark}}

\* C1: on a follower the recorded stage changes only by advancing one step
\* along NotStarted, Prepare, Benchmark, Cleanup, Done.
StageAdvancesOneStep ==
    [][stage' # stage => StageIdx(stage') = StageIdx(stage) + 1]_vars

\* C2: a follower does no work of a stage before that stage's start signal is
\* raised: Prepare is called only after the prepare start signal, the workers
\* get the benchmark start signal as their gate and issue no operation before
\* it, Cleanup is called only after the cleanup start signal.
NoWorkBeforeStartSignal ==
    /\ "Prepare" \in Range(calls) => startClosed[stagePrepare]
    /\ "Start" \in Range(calls) => gate = stageBenchmark
    /\ issued # <<>> => startClosed[stageBenchmark]
    /\ "Cleanup" \in Range(calls) => startClosed[stageCleanup]

\* C2 witness: a run in which operations were issued and Cleanup was called.
WorkOfAllStagesDone ==
    /\ "Cleanup" \in Range(calls)
    /\ Len(issued) = MaxOps

\* C3: start_stage(benchmark) is sent to no follower before every follower
\* still connected answered a Prepare poll with finished and no error.
BenchmarkStartedAfterPrepareFinished ==
    (\E r \in sentStart : r.stage = stageBenchmark) =>
        \A i \in Hosts : ws[i] => i \in finished[stagePrepare]

\* C3 witness: every follower was sent start_stage(benchmark).
BenchmarkStartSentToAll ==
    {r.host : r \in {q \in sentStart : q.stage = stageBenchmark}} = Hosts

\* C4: the start_stage requests of one stage all carry the same start_at,
\* computed once when the stage is started (3 s ahead for Benchmark), and
\* every follower still connected after startStageAll was sent one.
SameStartAtForAllFollowers ==
    /\ \A r1, r2 \in sentStart : r1.stage = r2.stage /\ r1.at = r2.at
    /\ \A r \in sentStart : r.at = startAt
    /\ \A r \in sentStart : r.stage = stageBenchmark => r.at = calledAt + 3
    /\ spc \in {"waitForStage", "waiting", "profiling", "download", "downloading",
                "collect", "write"} =>
           \A i \in Hosts : ws[i] => \E r \in sentStart : r.host = i

\* C4 witness: two followers were sent start_stage(benchmark) and the clock
\* moved after the stage was started.
TwoBenchmarkStartsSentOverTime ==
    /\ cstage = stageBenchmark
    /\ now > calledAt
    /\ \E r1, r2 \in sentStart : r1.host # r2.host

\* C5: after any follower error during Prepare the run is aborted, no
\* follower was sent start_stage(benchmark) and no result was collected.
PrepareErrorAbortsRun ==
    (\E f \in failedIn : f[2] = stagePrepare) =>
        /\ spc = "fatal"
        /\ \A r \in sentStart : r.stage # stageBenchmark
        /\ sendOpsReq = {}
        /\ downloaded = <<>>
        /\ allOps = <<>>
        /\ resultFile = ""

\* C5 witness: a follower answered a Prepare poll with an error after another
\* one had finished.
PrepareErrorAfterOneFinished ==
    /\ \E f \in failedIn : f[2] = stagePrepare /\ f[3] = "err"
    /\ finished[stagePrepare] # {}

\* C6: a follower that fails during Benchmark is dropped alone: the fan-out
\* goes on (no abort), the other followers stay connected and are polled until
\* each finished or failed itself, and the dropped follower is neither sent
\* send_ops nor present in the collected log.
BenchmarkLossDropsOnlyThatFollower ==
    /\ \A i \in DroppedInBenchmark :
        /\ i \notin sendOpsReq
        /\ \A d \in Range(downloaded) : \A r \in Range(d) : r.from # i
        /\ \A r \in Range(allOps) : r.from # i
    /\ (DroppedInBenchmark # {} /\ spc = "fatal") => NoneRunning
    /\ (cstage = stageBenchmark /\ spc \in {"starting", "waitForStage", "waiting", "download"}) =>
           \A i \in Hosts \ DroppedInBenchmark : ws[i]
    /\ (cstage = stageBenchmark /\ spc \in {"download", "downloading", "collect", "write"}) =>
           waitSet \subseteq (finished[stageBenchmark] \cup DroppedInBenchmark)

\* C6 witness: one follower was dropped during Benchmark, another finished
\* and its operations were collected.
OneDroppedOneCollected ==
    /\ spc = "write"
    /\ DroppedInBenchmark # {}
    /\ finished[stageBenchmark] # {}
    /\ allOps # <<>>

\* C7: an error of a follower during Cleanup is only logged: the step leaves
\* the result file as it is, the run is not aborted and runServerBenchmark
\* returns no error.
CleanupErrorsOnlyLogged ==
    [][(\E f \in failedIn' : f[2] = stageCleanup) =>
           /\ spc' # "fatal"
           /\ resultFile' = resultFile
           /\ retErr' = ""]_vars

\* C7 witness: the coordinator returned after a follower was lost during
\* Cleanup, the result file written.
ReturnedAfterCleanupLoss ==
    /\ spc = "returned"
    /\ resultFile = "written"
    /\ \E f \in failedIn : f[2] = stageCleanup /\ f[3] = "lost"

\* C8 as stated: a follower lost during Prepare or during Cleanup aborts the
\* run.
LostInPrepareOrCleanupAborts ==
    \A f \in failedIn :
        (f[3] = "lost" /\ f[2] \in {stagePrepare, stageCleanup}) => spc = "fatal"

\* C8 amended: a follower lost during Prepare aborts the run; a follower lost
\* during Cleanup does not.
LostInPrepareAbortsCleanupNot ==
    \A f \in failedIn :
        f[3] = "lost" =>
            /\ f[2] = stagePrepare => spc = "fatal"
            /\ f[2] = stageCleanup => spc # "fatal"

\* C8 witness: a follower was lost while the coordinator polled for Prepare.
LostWhilePollingPrepare ==
    /\ cstage = stagePrepare
    /\ waitSet # {}
    /\ \E f \in failedIn : f[2] = stagePrepare /\ f[3] = "lost"

\* C9: after merge concatenated its input files no two records that came
\* from different files have the same thread_id.
MergedThreadIdsDistinct ==
    \A a, b \in 1..Len(mAllOps) :
        mAllOps[a].from # mAllOps[b].from => mAllOps[a].thread # mAllOps[b].thread

\* C10: when exactly one follower's log was downloaded, the collected log
\* holds exactly the records of that follower's reply, thread ids unchanged.
SingleLogCollectedUnchanged ==
    (spc = "write" /\ Len(downloaded) = 1) =>
        \E h \in sendOpsReq :
            /\ downloaded = <<replied[h]>>
            /\ Len(allOps) = Len(replied[h])
            /\ Range(allOps) = Range(replied[h])

\* C10 witness: the only log collected has two records, its follower's peer
\* was dropped during Benchmark.
SingleLogOfTwoRecordsCollected ==
    /\ spc = "write"
    /\ Len(downloaded) = 1
    /\ Len(allOps) = 2
    /\ DroppedInBenchmark # {}

\* The number of records in all the logs of d.
RECURSIVE TotalLen(_)
TotalLen(d) == IF d = <<>> THEN 0 ELSE Len(Head(d)) + TotalLen(Tail(d))

\* The positions of out that hold the record read from file f with start t.
PositionsOf(out, f, t) ==
    {j \in 1..Len(out) : out[j].from = f /\ out[j].start = t}

\* C11: the log merge writes has as many records as its input files
\* together, holds every record of every input file exactly once (same
\* start, only the thread_id may differ), and is in non-decreasing order of
\* start.
MergeOutputIsSortedUnion ==
    mOut # <<>> =>
        /\ Len(mOut) = TotalLen(margs)
        /\ \A f \in 1..Len(margs) : \A k \in 1..Len(margs[f]) :
            Cardinality(PositionsOf(mOut, f, margs[f][k].start)) = 1
        /\ \A j \in 1..Len(mOut) :
            /\ mOut[j].from \in 1..Len(margs)
            /\ \E k \in 1..Len(margs[mOut[j].from]) :
                margs[mOut[j].from][k].start = mOut[j].start
        /\ \A a, b \in 1..Len(mOut) : a < b => mOut[a].start <= mOut[b].start

\* C11 witness: merge wrote a log of three files' records, and the first
\* record of the second file comes before the last record of the first.
MergedThreeFilesInterleaved ==
    /\ mpc = "returned"
    /\ Len(margs) = 3
    /\ Len(margs[1]) = 2 /\ Len(margs[2]) = 2 /\ Len(margs[3]) = 1
    /\ Len(mOut) = 5
    /\ \E a, b \in 1..Len(mOut) :
        a < b /\ mOut[a].from = 2 /\ mOut[b].from = 1

\* The flags of the command that were given on the command line and are not
\* in the exclusion set.
GivenNotExcluded ==
    {i \in FlagIdx : flagArg[i] # <<>> /\ CommandFlags[i].names \cap excludeFlags = {}}

\* C12: the flags map of the benchmark request holds none of the excluded
\* flags, holds every other flag that was given on the command line, and
\* holds no flag that was not given.
RequestFlagsAreGivenNotExcluded ==
    rpc = "request" =>
        /\ DOMAIN reqFlags \cap excludeFlags = {}
        /\ \A i \in GivenNotExcluded :
            \E k \in DOMAIN reqFlags :
                k = CommandFlags[i].name \/ k \in CommandFlags[i].names
        /\ \A k \in DOMAIN reqFlags :
            \E i \in FlagIdx :
                /\ k = CommandFlags[i].name \/ k \in CommandFlags[i].names
                /\ flagArg[i] # <<>>

\* The distance of two instants.
Dist(a, b) == IF a >= b THEN a - b ELSE b - a

\* C13: a handshake attempt succeeds exactly if the dial, the write and the
\* read succeed, the reply carries no error, and the clock read after the
\* reply is at most one second away from the reply's time plus half the
\* roundtrip; in particular no reply with a larger skew is accepted.
HandshakeSucceedsIffInSync ==
    attempt.made =>
        LET m == attempt.met
        IN  (attempt.err = "") <=>
                /\ m.dial /\ m.write /\ m.read
                /\ m.err = ""
                /\ Dist(m.rt + m.lag, m.time + m.rt \div 2) <= Second

\* C14: once the first round trip with a follower has failed for good (its
\* handshake found a version mismatch or a clock skew, or the follower could
\* not be reached), the coordinator has exited, no start_stage was ever sent
\* and no result file exists.
HandshakeFailureAbortsBeforeStart ==
    (\E f \in failedIn : f[2] = "connect" /\ f[3] = "lost") =>
        /\ spc = "fatal"
        /\ startAt = -1
        /\ sentStart = {}
        /\ resultFile = ""

\* C14 witness: the handshake with the second follower failed for good after
\* the first follower was connected.
SecondHandshakeFailed ==
    /\ ws[1]
    /\ <<2, "connect", "lost">> \in failedIn

CleanupCalled == "Cleanup" \in Range(calls)

\* C16: the driver's Cleanup is called only if neither noclear nor keep-data
\* is set, and a run that reaches its cleanup step calls it exactly if
\* neither is set, standalone and follower alike; on the follower the
\* cleanup done signal is raised only after the cleanup start signal,
\* whether Cleanup was called or not.
CleanupIffNeitherFlag ==
    /\ CleanupCalled => ~keepData /\ ~noclear
    /\ (mode = "standalone" /\ bpc = "returned") =>
        (CleanupCalled <=> ~keepData /\ ~noclear)
    /\ (mode = "follower" /\ doneCloses[stageCleanup] > 0) =>
        /\ CleanupCalled <=> ~keepData /\ ~noclear
        /\ startClosed[stageCleanup]
        /\ doneCloses[stageCleanup] = 1

\* C16 witness: a follower given noclear raised its cleanup done signal
\* without calling Cleanup.
FollowerSkippedCleanup ==
    /\ mode = "follower"
    /\ noclear /\ ~keepData
    /\ doneCloses[stageCleanup] = 1
    /\ ~CleanupCalled
    /\ calls = <<"Prepare", "Start">>

\* C17: when Prepare returns an error the run aborts without a result file:
\* the standalone run exits with the start gate never armed nor released
\* and Start never called; the follower records the error with the prepare
\* stage done and has returned without calling Start, without results and
\* without a file.
PrepareErrorAbortsWithoutFile ==
    /\ berr = "prepare failed" =>
        /\ bpc = "fatal"
        /\ startGate = "none"
        /\ calls = <<"Prepare">>
        /\ ~benchFile
    /\ cbErr = "prepare failed" =>
        /\ fpc = "returned"
        /\ doneCloses[stagePrepare] = 1
        /\ calls = <<"Prepare">>
        /\ results = <<>>
        /\ ~fileWritten

\* C17 witness: the Prepare of a follower failed and the coordinator's start
\* signal for the Benchmark stage was raised all the same.
FollowerPrepareFailed ==
    /\ mode = "follower"
    /\ cbErr = "prepare failed"
    /\ startClosed[stageBenchmark]

\* The two key flags and the values an invocation can give them.
KeyIdx == {FlagNamed("access-key"), FlagNamed("secret-key")}

KeyValues == {"", "AK1", "SK1", "K2"}

\* The invocations that differ from arg at most in the values given to the
\* two key flags.
KeyVariants(arg) ==
    {[i \in FlagIdx |->
        IF arg[i] = <<>> THEN <<>>
        ELSE IF i = FlagNamed("access-key") THEN <<ak>>
        ELSE IF i = FlagNamed("secret-key") THEN <<sk>>
        ELSE arg[i]] : ak \in KeyValues, sk \in KeyValues}

\* No piece of the command line carries the value given to a key flag.
NoKeyValueInCommandLine ==
    \A i \in KeyIdx :
        flagArg[i] # <<>> =>
            (" --" \o CommandFlags[i].name \o "=" \o flagArg[i][1]) \notin Range(cmdLine)

\* C18 as stated: the command line written with the results carries no value
\* of access-key or secret-key, and any two invocations that differ only in
\* the values of these two flags get the same command line.
CommandLineSameForAllKeys ==
    rpc = "written" =>
        /\ NoKeyValueInCommandLine
        /\ \A other \in KeyVariants(flagArg) : commandLine(other) = cmdLine

\* C18, amended: the same for any two invocations that give a value that is
\* not empty to the same key flags.
CommandLineSameForNonEmptyKeys ==
    rpc = "written" =>
        /\ NoKeyValueInCommandLine
        /\ \A other \in KeyVariants(flagArg) :
            (\A i \in KeyIdx : (other[i] = <<"">>) <=> (flagArg[i] = <<"">>)) =>
                commandLine(other) = cmdLine

\* C18 witness: the command line of an invocation that gave both keys a
\* value was written, with both redacted.
BothKeysRedacted ==
    /\ rpc = "written"
    /\ flagArg[FlagNamed("access-key")] = <<"AK1">>
    /\ flagArg[FlagNamed("secret-key")] = <<"SK1">>
    /\ " --access-key=*REDACTED*" \in Range(cmdLine)
    /\ " --secret-key=*REDACTED*" \in Range(cmdLine)

\* The segments of width d that tile a range of length t.
Segments(t, d) == (t + d - 1) \div d

\* C19: with analyze.dur unset the width returned for a total above zero is
\* the smallest standard duration that tiles the range with at most 400
\* segments, and the width returned for a total of zero is zero.
SegDurIsSmallestWithin400 ==
    (apc = "returned" /\ analyzeDur = "" /\ total >= 0) =>
        IF total = 0 THEN segDur = 0
        ELSE /\ segDur \in Range(stdDurations)
             /\ Segments(total, segDur) <= wantAtMost
             /\ \A d \in Range(stdDurations) :
                    d < segDur => Segments(total, d) > wantAtMost

\* C20: when exactly one of the two runs given to cmp is mixed, the
\* comparison has failed or is about to, and no op-type was or will be
\* compared or reported.
MixedMismatchComparesNothing ==
    IsMixed(before) # IsMixed(after) =>
        /\ cpc \in {"printCompare", "fatal"}
        /\ compared = <<>>

\* C20 witness: the comparison of a mixed run with a run of one of its
\* op-types failed.
MixedAgainstSingleFailed ==
    /\ cpc = "fatal"
    /\ before = {"GET", "PUT"}
    /\ after = {"GET"}

\* The calls of bench.Compare made for one op-type.
CallsFor(typ) == {i \in 1..Len(compared) : compared[i].typ = typ}

\* analyze.op lets the op-type through.
Wanted(typ) == wantOp = "" \/ wantOp = typ

\* C21: an op-type is compared at most once, never when the first run has
\* no records of it (so never when only the second run has) and never when
\* analyze.op names another; each comparison gets the width analysisDur
\* gives for the first run's records of the op-type and allThreads = not
\* mixed; and when printCompare has returned, every wanted op-type present
\* in both runs has been compared exactly once.
EachCommonOpTypeComparedOnce ==
    /\ \A typ \in Range(AllOpTypes) :
           /\ Cardinality(CallsFor(typ)) <= 1
           /\ typ \notin before \/ ~Wanted(typ) => CallsFor(typ) = {}
           /\ \A i \in CallsFor(typ) :
                  /\ compared[i].analysis = analysisDur(analyzeDur, beforeDur[typ]).d
                  /\ compared[i].allThreads = ~IsMixed(before)
    /\ cpc = "returned" =>
           \A typ \in before \cap after :
               Wanted(typ) => Cardinality(CallsFor(typ)) = 1

\* C21 witness: two mixed runs sharing PUT, of different lengths, have been
\* compared with the automatic width; DELETE is in the second run only.
CommonOpTypeComparedAtWidthOfBefore ==
    /\ cpc = "returned"
    /\ before = {"GET", "PUT"}
    /\ after = {"DELETE", "PUT"}
    /\ analyzeDur = ""
    /\ beforeDur["PUT"] = (wantAtMost + 1) * Second
    /\ afterDur["PUT"] = Second + 1
    /\ \E i \in CallsFor("PUT") : compared[i].analysis = 5 * Second

\* C22: a delete benchmark that has passed checkDeleteSyntax or has been
\* handed to runBench has batch >= 1 and objects >= 4 * batch * concurrent.
DeleteRunsOnlyWithEnoughObjects ==
    dpc \in {"checked", "runBench"} =>
        /\ batch >= 1
        /\ objects >= 4 * batch * concurrent

DeadlineIsStartTimePlusDuration ==
    mode = "standalone" /\ ctx2Done # "none" =>
        /\ deadline = tStart + benchDur
        /\ ctx2Done = "deadline" => clk >= deadline
        /\ ctx2Done = "cancel" => bpc \notin {"start", "inStart"}
        /\ bpc \in {"start", "inStart"} /\ clk < deadline => ctx2Done = "live"

\* C24 witness: b.Start is running and the deadline, one duration after a
\* tStart three seconds past the preparation, has just cancelled its context.
DeadlineCancelledRunningStart ==
    /\ mode = "standalone"
    /\ bpc = "inStart"
    /\ startGate = "released"
    /\ syncstart = NoSyncStart
    /\ benchDur = Second
    /\ ctx2Done = "deadline"
    /\ clk = preparedAt + 3 * Second + benchDur

\* The log holds exactly the records the workers issued, whatever their
\* order and client id.
HoldsFullLog(log) ==
    /\ Len(log) = Len(issued)
    /\ \A k \in 1..Len(issued) :
           \E j \in 1..Len(log) :
               log[j].thread = issued[k].thread /\ log[j].start = issued[k].start

\* C25: on a follower, whenever the done signal of the benchmark stage has
\* been raised, the follower's results hold the full log b.Start returned.
BenchmarkDoneOnlyWithResultsStored ==
    doneCloses[stageBenchmark] > 0 => HoldsFullLog(results)

\* C25 witness: b.Start has returned a log of MaxOps records, which is
\* stored, and the benchmark stage is reported done.
BenchmarkDoneWithLogStored ==
    /\ doneCloses[stageBenchmark] = 1
    /\ fpc = "setClientID"
    /\ Len(issued) = MaxOps
    /\ Len(results) = MaxOps

\* Every follower the benchmark wait was started for has answered finished
\* or has been dropped during the stage.
BenchmarkWaitEnded ==
    /\ spc \notin {"startStageAll", "starting", "waitForStage", "waiting"}
    /\ \A i \in waitSet :
           \/ i \in finished[stageBenchmark]
           \/ \E f \in failedIn : f[1] = i /\ f[2] = stageBenchmark

\* No send_ops before the benchmark wait has ended for every follower.
SendOpsAfterBenchmarkWait ==
    sendOpsReq # {} =>
        /\ cstage \in {stageBenchmark, stageCleanup}
        /\ cstage = stageBenchmark => BenchmarkWaitEnded

\* start_stage(cleanup) has been sent to a follower.
CleanupStartSent == \E r \in sentStart : r.stage = stageCleanup

\* Every download of downloadOps has completed: each follower still
\* connected was sent send_ops and the coordinator has gone on to Cleanup.
DownloadsCompleted ==
    /\ \A i \in Hosts : ws[i] => i \in sendOpsReq
    /\ cstage = stageCleanup

\* C26 as claimed: send_ops is sent to no follower before the benchmark wait
\* has ended for every follower, and start_stage(cleanup) to none before
\* every download has completed and the combined log has been written.
CleanupStartedAfterLogWritten ==
    /\ SendOpsAfterBenchmarkWait
    /\ CleanupStartSent => DownloadsCompleted /\ resultFile = "written"

\* C26: send_ops is sent to no follower before the benchmark wait has ended
\* for every follower, and start_stage(cleanup) to none before every download
\* has completed and the combined log has been written or its file could not
\* be created.
CleanupStartedAfterWriteTried ==
    /\ SendOpsAfterBenchmarkWait
    /\ CleanupStartSent =>
           DownloadsCompleted /\ resultFile \in {"written", "createFailed"}

\* C26 witness: start_stage(cleanup) was sent to a follower whose log was
\* downloaded, after the file of the combined log could not be created.
CleanupStartedAfterFailedCreate ==
    /\ resultFile = "createFailed"
    /\ \E r \in sentStart : r.stage = stageCleanup /\ r.host \in sendOpsReq

\* C27: when runServerBenchmark has returned, the connection of every
\* follower has left the coordinator's table once, and by being sent
\* Disconnect and closed.
EveryConnectionDisconnectedAndClosed ==
    spc = "returned" => \A i \in Hosts : wsEnd[i] = <<"closed">>

\* C28: the wait for a stage returns only when every follower it was started
\* for has answered a poll with finished or is no longer connected, and the
\* polling of a follower ends only in one of these two ways, however often
\* the follower has answered not finished.
WaitEndsOnlyOnFinishedOrDisconnected ==
    [][/\ spc = "waiting" /\ spc' \notin {"waiting", "fatal"} =>
              \A i \in waitSet : i \in finished[cstage] \/ ~ws[i]
       /\ \A i \in Hosts :
              spc = "waiting" /\ gor[i] = "run" /\ gor'[i] # "run" =>
                  i \in finished'[cstage] \/ ~ws'[i]]_vars

\* C28 witness: a follower answered not finished MaxPolls times, was polled
\* again and answered finished.
FinishedAfterMaxPolls ==
    /\ spc = "waiting"
    /\ \E i \in Hosts :
           /\ polled[i] = MaxPolls
           /\ gor[i] = "done"
           /\ i \in finished[cstage]

\* A step of the timer goroutine of runClientBenchmark.
TimerStep == tpc \in {"waitStart", "timing"} /\ tpc' # tpc

\* C29: the timer goroutine of a follower calls cancel() only from its second
\* select, with the start signal raised and benchDur passed since it went
\* by the first one; while it waits for the start signal it leaves ctx2
\* alone; and when the parent context is done and the channel the goroutine
\* waits for is not ready, its step is to return without calling cancel().
TimerCancelsOnlyAfterStartAndDuration ==
    [][/\ tpc' = "stopped" /\ tpc # "stopped"
            => /\ tpc = "timing"
               /\ startClosed[gate]
               /\ timerElapsed >= benchDur
       /\ tpc = "waitStart" /\ TimerStep
            => /\ ctx2Cancelled' = ctx2Cancelled
               /\ tpc' = "timing" => startClosed[gate]
       /\ ctxDone /\ TimerStep
            => /\ ctxDone' /\ Ctx2Done'
               /\ \/ tpc' = "aborted" /\ ctx2Cancelled' = ctx2Cancelled
                  \/ tpc = "waitStart" /\ startClosed[gate] /\ tpc' = "timing"
                  \/ tpc = "timing" /\ timerElapsed >= benchDur
                        /\ tpc' = "stopped"]_vars

\* The timer has cancelled a running benchmark exactly benchDur after it
\* saw the start signal.
TimerCancelledAfterDuration ==
    /\ tpc = "stopped"
    /\ ~ctxDone
    /\ startClosed[stageBenchmark]
    /\ timerElapsed = benchDur

\* b.Prepare has returned without an error.
PrepareSucceeded == doneCloses[stagePrepare] > 0 /\ cbErr # "prepare failed"

\* The follower's context is never cancelled and b.Start returns.
DriverReturnsAndContextLives ==
    /\ []~ctxDone
    /\ (fpc = "inStart") ~> (fpc # "inStart")

\* Every stage whose start signal is raised after a successful Prepare gets
\* its done signal, and a started cleanup gets its done signal.
EveryStartedStageGetsDone ==
    /\ (PrepareSucceeded /\ startClosed[stagePrepare])
            ~> (doneCloses[stagePrepare] > 0)
    /\ (PrepareSucceeded /\ startClosed[stageBenchmark])
            ~> (doneCloses[stageBenchmark] > 0)
    /\ (PrepareSucceeded /\ startClosed[stageCleanup])
            ~> (doneCloses[stageCleanup] > 0)
    /\ (fpc = "cleanup") ~> (doneCloses[stageCleanup] > 0)

SortedByStart(o) == \A k \in 1..(Len(o) - 1) : o[k].start <= o[k + 1].start

\* C31: whenever the done signal of the benchmark stage is raised, every
\* record of cb.results carries the client id and cb.results is sorted by
\* start.
DoneResultsCarryClientIDSorted ==
    doneCloses[stageBenchmark] > 0
        => /\ \A k \in 1..Len(results) : results[k].client = "cID"
           /\ SortedByStart(results)

\* C32: in a run of runClientBenchmark, whichever way it returns, stageDone
\* closes the done signal of each stage at most once.
DoneSignalClosedAtMostOnce == \A s \in StageSet : doneCloses[s] <= 1

\* runClientBenchmark has returned from its last line with the done signal
\* of every stage closed.
AllDoneSignalsClosed ==
    /\ fpc = "returned"
    /\ stage = stageCleanup
    /\ \A s \in StageSet : doneCloses[s] = 1

\* C33: a step that finds an error recorded in cb.err leaves it as it is,
\* unless the step is init.
RecordedErrorIsWriteOnce ==
    [][cbErr # "" /\ cbErr' # cbErr => cbErr' = "" /\ calls' = <<>>]_vars

\* Since the last init, stageDone stored the error of its first call and was
\* then called with another error and with none.
StageDoneCalledAfterError ==
    /\ Len(calls) = 3
    /\ calls[1].err = "prepare failed"
    /\ calls[2].err = "start failed"
    /\ calls[3].err = ""
    /\ cbErr = "prepare failed"

\* connect has returned.
ConnectReturned == kpc \in {"connected", "failed"}

\* The attempts connect makes: tries counts the failed ones before the last,
\* nil is returned by a successful attempt only, and an error only by the failed
\* attempt that finds tries = 3, with c.ws[i] set to nil.
ConnectAttemptsBounded ==
    /\ tries \in 0..3
    /\ kpc = "connected" => attempt.made /\ attempt.err = "" /\ wsi
    /\ kpc = "failed" => attempt.made /\ attempt.err # "" /\ tries = 3 /\ ~wsi
    /\ kpc = "sleep" => attempt.made /\ attempt.err # "" /\ tries \in 1..3

\* An attempt that succeeds makes connect return nil at once; one that fails
\* is followed by the sleep unless it is the fourth.
ConnectReturnsAtFirstSuccess ==
    [][kpc = "attempt" /\ attempt' # attempt
        => /\ attempt'.err = "" <=> kpc' = "connected"
           /\ attempt'.err # "" /\ tries < 3 => kpc' = "sleep" /\ tries' = tries + 1
           /\ attempt'.err # "" /\ tries = 3 => kpc' = "failed"]_vars

RoundTripRepliesFromOneConnection ==
    /\ rtRet = "reply" =>
        /\ Len(rtLog) >= 2
        /\ LET w == rtLog[Len(rtLog) - 1]
               r == rtLog[Len(rtLog)]
           IN  /\ w.op = "write" /\ w.ok /\ w.req = rtReq
               /\ r.op = "read" /\ r.ok
               /\ w.conn = r.conn /\ r.conn # 0
    /\ rtRet = "error" =>
        /\ rtLog # <<>>
        /\ rtLog[Len(rtLog)].op = "connect" /\ ~rtLog[Len(rtLog)].ok
        /\ rtWs = 0
    /\ \A k \in 1..Len(rtLog) :
        LET e == rtLog[k]
        IN  /\ e.op \in {"write", "read"} /\ ~e.ok
                => /\ k < Len(rtLog)
                   /\ rtLog[k + 1].op = "connect"
            /\ e.op = "connect" /\ e.ok
                => \/ k = Len(rtLog) /\ rtpc = "write" /\ rtWs = e.conn
                   \/ /\ k < Len(rtLog)
                      /\ rtLog[k + 1].op = "write"
                      /\ rtLog[k + 1].conn = e.conn
                      /\ rtLog[k + 1].req = rtReq
            /\ e.op = "connect" /\ ~e.ok
                => k = Len(rtLog) /\ rtpc = "returned" /\ rtRet = "error"

\* roundTrip has returned the reply it read from the second connection, after
\* the read on the first had failed.
ReplyAfterReconnect ==
    /\ rtRet = "reply"
    /\ Len(rtLog) = 5
    /\ rtLog[2].op = "read" /\ ~rtLog[2].ok
    /\ rtLog[3].op = "connect" /\ rtLog[3].ok
    /\ rtLog[5].conn = rtLog[3].conn

\* C38: after any options applied to the default options, totalSize is
\* positive and a random size goes with a totalSize of at least 256.
OptionsSizeInvariant ==
    /\ totalSize > 0
    /\ randSize => totalSize >= 256

\* The path runBench is on, by the conditions of its dispatch.
PathOfFlags ==
    IF activeBenchmark THEN "follower"
    ELSE IF warpClient THEN "coordinator"
    ELSE "standalone"

\* C36: a call of runBench takes one path and keeps it: the follower path
\* with a registered benchmark, else the coordinator path with warp-client
\* set, else the standalone path; only the path taken runs, and on the
\* coordinator path no Prepare, Start or Cleanup is called.
RunBenchTakesOnePath ==
    /\ [](/\ mode = "" <=> bpc = "runBench"
          /\ mode # "" => mode = PathOfFlags
          /\ mode # "follower" => fpc = "waitPrepare" /\ tpc = "none"
          /\ mode = "follower" => bpc = "client"
          /\ mode = "coordinator" => bpc \in {"server", "returned", "fatal"}
          /\ mode = "coordinator" => calls = <<>> /\ startGate = "none")
    /\ [][mode # "" => mode' = mode]_vars

\* The coordinator path has returned although a driver was at hand.
CoordinatorPathReturned ==
    /\ mode = "coordinator"
    /\ bpc = "returned"
    /\ calls = <<>>

\* The offset of the log of host i when the logs are offset in the order of
\* the host list.
RECURSIVE HostOffset(_)
HostOffset(i) ==
    IF i = 1 THEN 0 ELSE OffsetThreads(replied[i - 1], HostOffset(i - 1))

\* The offset of the p-th log of res, the logs being offset in that order.
RECURSIVE ArrivalOffset(_)
ArrivalOffset(p) ==
    IF p = 1 THEN 0 ELSE OffsetThreads(downloaded[p - 1], ArrivalOffset(p - 1))

\* Every record of the combined log is a record of log o with n added to
\* its thread id, for the log o it came from.
ShiftedBy(r, o, n) ==
    \E k \in 1..Len(o) :
        /\ o[k].from = r.from
        /\ o[k].start = r.start
        /\ r.thread = (o[k].thread + n) % ThreadMod

\* Several logs have been combined.
SeveralCollected == spc = "write" /\ Len(downloaded) >= 2

AcceptedWidthIsPositive ==
    (apc = "returned" /\ total > 0) => segDur > 0

=============================================================================
